---- MODULE Spec2Model ----
(***************************************************************************)
(* Nexus IA backend (src/main.py): the session agent (class Nexus), its    *)
(* command dispatcher and handlers, the memory store (_cargar_memoria /    *)
(* _guardar_memoria), the LLM bridge, the instance registry                *)
(* (NexusInstanceManager) and the Flask endpoints.                         *)
(*                                                                         *)
(* Python str values are modelled as sequences of one-character strings,   *)
(* so that `in`, replace, split, strip, capitalize and lower are computed  *)
(* character by character as Python computes them.                         *)
(***************************************************************************)
EXTENDS Naturals, Integers, Sequences, FiniteSets, TLC

VARIABLES
    instances,   \* NexusInstanceManager._instances: session id -> agent
    order,       \* insertion order of the keys of _instances (dict order)
    store,       \* persisted records: session id -> serialized record
    backend,     \* "db" when DATABASE_URL and SessionLocal are set, else "file"
    platform,    \* sys.platform of the serving host
    last,        \* observation of the request served last
    faults,      \* number of backend failures so far
    nreq,        \* number of requests served so far
    threads      \* requests in flight: thread id -> position and locals

vars == <<instances, order, store, backend, platform, last, faults, nreq,
         threads>>

----------------------------------------------------------------------------
(* Python str primitives *)

\* Python's str.isspace characters occurring in the modelled texts
Whitespace == {" ", "\t", "\n"}

\* lower-case / upper-case pairs of the characters of the modelled texts
CasePairs ==
    { <<"a","A">>, <<"b","B">>, <<"c","C">>, <<"d","D">>, <<"e","E">>,
      <<"h","H">>, <<"i","I">>, <<"j","J">>, <<"l","L">>, <<"m","M">>,
      <<"n","N">>, <<"o","O">>, <<"q","Q">>, <<"r","R">>, <<"s","S">>,
      <<"t","T">>, <<"u","U">>, <<"z","Z">>, <<"é","É">>, <<"ó","Ó">>,
      <<"á","Á">>, <<"ú","Ú">> }

\* str.upper on one character
UpperChar(c) ==
    IF \E p \in CasePairs : p[1] = c
    THEN (CHOOSE p \in CasePairs : p[1] = c)[2]
    ELSE c

\* str.lower on one character
LowerChar(c) ==
    IF \E p \in CasePairs : p[2] = c
    THEN (CHOOSE p \in CasePairs : p[2] = c)[1]
    ELSE c

\* str.lower()
Lower(s) == [i \in 1..Len(s) |-> LowerChar(s[i])]

\* str.capitalize(): first character upper-cased, the rest lower-cased
Capitalize(s) ==
    [i \in 1..Len(s) |-> IF i = 1 THEN UpperChar(s[i]) ELSE LowerChar(s[i])]

\* s[i:] with a 1-based index
Tail_(s, i) == SubSeq(s, i, Len(s))

\* k occurs in s at (1-based) position i
MatchAt(s, k, i) ==
    /\ i >= 1
    /\ i + Len(k) - 1 <= Len(s)
    /\ \A j \in 1..Len(k) : s[i + j - 1] = k[j]

\* the positions of s at which k occurs
Occurrences(s, k) == {i \in 1..(Len(s) - Len(k) + 1) : MatchAt(s, k, i)}

\* Python's `k in s`
Contains(s, k) == \E i \in 1..(Len(s) - Len(k) + 1) : MatchAt(s, k, i)

\* str.find(k) + 1: position of the first occurrence, 0 when there is none
Find(s, k) ==
    LET occ == Occurrences(s, k)
    IN  IF occ = {} THEN 0 ELSE CHOOSE i \in occ : \A j \in occ : i <= j

\* str.startswith(p)
StartsWith(s, p) == MatchAt(s, p, 1)

\* str.replace(k, r, 1): the first occurrence only
ReplaceFirst(s, k, r) ==
    LET i == Find(s, k)
    IN  IF i = 0 THEN s
        ELSE SubSeq(s, 1, i - 1) \o r \o Tail_(s, i + Len(k))

RECURSIVE ReplaceAll(_, _, _)
\* str.replace(k, r): every non-overlapping occurrence, left to right
ReplaceAll(s, k, r) ==
    LET i == Find(s, k)
    IN  IF i = 0 \/ Len(k) = 0 THEN s
        ELSE SubSeq(s, 1, i - 1) \o r \o ReplaceAll(Tail_(s, i + Len(k)), k, r)

RECURSIVE SplitLast(_, _)
\* str.split(k)[-1]: the text after the last occurrence split() finds
SplitLast(s, k) ==
    LET i == Find(s, k)
    IN  IF i = 0 THEN s ELSE SplitLast(Tail_(s, i + Len(k)), k)

\* str.split(k, 1): one or two parts
Split1(s, k) ==
    LET i == Find(s, k)
    IN  IF i = 0 THEN <<s>>
        ELSE <<SubSeq(s, 1, i - 1), Tail_(s, i + Len(k))>>

\* str.strip(): leading and trailing whitespace removed
Strip(s) ==
    LET keep == {i \in 1..Len(s) : s[i] \notin Whitespace}
    IN  IF keep = {} THEN <<>>
        ELSE SubSeq(s, CHOOSE i \in keep : \A j \in keep : i <= j,
                       CHOOSE i \in keep : \A j \in keep : i >= j)

RECURSIVE Concat(_)
\* "".join(parts)
Concat(parts) ==
    IF parts = <<>> THEN <<>> ELSE Head(parts) \o Concat(Tail(parts))

----------------------------------------------------------------------------
(* Session Memory: the dict self.memoria; datos_aprendidos is a Python    *)
(* dict, kept as the sequence of its <<key, value>> items in insertion    *)
(* order.                                                                 *)

\* the blank memory _cargar_memoria returns on a miss
BlankMemoria ==
    [nombre |-> <<>>, nombre_usuario |-> <<>>, datos_aprendidos |-> <<>>]

\* key in dict
HasKey(d, k) == \E i \in 1..Len(d) : d[i][1] = k

\* dict[key] for a key the dict holds
DictGet(d, k) == d[CHOOSE i \in 1..Len(d) : d[i][1] = k][2]

\* dict[key] = value: overwrite in place, or insert at the end
DictSet(d, k, v) ==
    IF HasKey(d, k)
    THEN [i \in 1..Len(d) |-> IF d[i][1] = k THEN <<k, v>> ELSE d[i]]
    ELSE Append(d, <<k, v>>)

\* set(dict.keys())
DictKeys(d) == {d[i][1] : i \in 1..Len(d)}

----------------------------------------------------------------------------
(* LLM bridge *)

\* the fixed reply of pensar_con_gemini / pensar_con_gemini_stream on failure
GeminiFallback ==
    <<"L","o"," ","s","i","e","n","t","o",","," ","p","a","r","e","c","e"," ","q","u","e"," ","t","e","n","g","o"," ","p","r","o","b","l","e","m","a","s"," ","p","a","r","a"," ","c","o","n","t","a","c","t","a","r"," ","a"," ","G","o","o","g","l","e"," ","G","e","m","i","n","i"," ","e","n"," ","e","s","t","e"," ","m","o","m","e","n","t","o",".">>

\* labels of the rendered transcript lines
LabelUsuario == <<"U","s","u","a","r","i","o">>
LabelIA == <<"I","A">>

\* self.conversation_history[-6:]
HistoryWindow == 6

\* the last HistoryWindow entries of the transcript
LastTurns(history) ==
    IF Len(history) <= HistoryWindow THEN history
    ELSE SubSeq(history, Len(history) - HistoryWindow + 1, Len(history))

\* historial_texto: line i of the window is labelled by the parity of i
HistorialTexto(history) ==
    LET w == LastTurns(history)
    IN  [i \in 1..Len(w) |->
            [label |-> IF (i - 1) % 2 = 0 THEN LabelUsuario ELSE LabelIA,
             turno |-> w[i]]]

\* prompt_completo: the parts of the prompt that vary
Prompt(memoria, history, pregunta) ==
    [nombre |-> memoria.nombre,
     nombre_usuario |-> memoria.nombre_usuario,
     datos_aprendidos |-> memoria.datos_aprendidos,
     historial |-> HistorialTexto(history),
     pregunta |-> pregunta]

\* pensar_con_gemini: the provider's text, or the fallback when the call raises
pensar_con_gemini(llm) == IF llm.ok THEN llm.text ELSE GeminiFallback

\* pensar_con_gemini_stream without its except clause: the stream ends at
\* the failure
pensar_con_gemini_stream_NoFallback(llm) ==
    SelectSeq(llm.chunks, LAMBDA c : c # <<>>)

\* pensar_con_gemini_stream: the non-empty chunk texts in arrival order, then
\* the fallback when the provider raises
pensar_con_gemini_stream(llm) ==
    SelectSeq(llm.chunks, LAMBDA c : c # <<>>)
        \o (IF llm.ok THEN <<>> ELSE <<GeminiFallback>>)

----------------------------------------------------------------------------
(* Command handlers.  Each yields the reply, the action, the memory after  *)
(* the handler, whether the handler called _guardar_memoria, the prompts   *)
(* it sent to the LLM and the executables it spawned.                      *)

ActionNone == [type |-> "none", url |-> <<>>]
ActionOpenUrl(u) == [type |-> "open_url", url |-> u]
ActionExit == [type |-> "exit", url |-> <<>>]

Result(target, memoria, speech, action, saved, prompts, spawned) ==
    [target |-> target, memoria |-> memoria, speech |-> speech,
     action |-> action, saved |-> saved, prompts |-> prompts,
     spawned |-> spawned]

\* _handle_set_ia_name replying without the assignment to memoria["nombre"]
_handle_set_ia_name_NoStore(memoria, comando) ==
    LET nombre_elegido == Capitalize(Strip(comando))
    IN  Result("_handle_set_ia_name", memoria,
               <<"¡","E","n","t","e","n","d","i","d","o","!"," ","A"," ","p","a","r","t","i","r"," ","d","e"," ","a","h","o","r","a"," ","m","i"," ","n","o","m","b","r","e"," ","e","s"," ">> \o nombre_elegido
                   \o <<"."," ","¿","E","n"," ","q","u","é"," ","p","u","e","d","o"," ","a","y","u","d","a","r","t","e","?">>,
               ActionNone, TRUE, <<>>, <<>>)

_handle_set_ia_name(memoria, comando) ==
    LET nombre_elegido == Capitalize(Strip(comando))
    IN  Result("_handle_set_ia_name",
               [memoria EXCEPT !.nombre = nombre_elegido],
               <<"¡","E","n","t","e","n","d","i","d","o","!"," ","A"," ","p","a","r","t","i","r"," ","d","e"," ","a","h","o","r","a"," ","m","i"," ","n","o","m","b","r","e"," ","e","s"," ">> \o nombre_elegido
                   \o <<"."," ","¿","E","n"," ","q","u","é"," ","p","u","e","d","o"," ","a","y","u","d","a","r","t","e","?">>,
               ActionNone, TRUE, <<>>, <<>>)

KwMiNombreEs == <<"m","i"," ","n","o","m","b","r","e"," ","e","s">>

_handle_set_user_name(memoria, comando) ==
    LET nombre_nuevo == Capitalize(Strip(SplitLast(comando, KwMiNombreEs)))
    IN  Result("_handle_set_user_name",
               [memoria EXCEPT !.nombre_usuario = nombre_nuevo],
               <<"¡","H","o","l","a",","," ">> \o nombre_nuevo
                   \o <<"!"," ","U","n"," ","p","l","a","c","e","r"," ","c","o","n","o","c","e","r","t","e","."," ","H","e"," ","g","u","a","r","d","a","d","o"," ","t","u"," ","n","o","m","b","r","e",".">>,
               ActionNone, TRUE, <<>>, <<>>)

_handle_get_user_name(memoria, comando) ==
    Result("_handle_get_user_name", memoria,
           IF memoria.nombre_usuario # <<>>
           THEN <<"T","e"," ","l","l","a","m","a","s"," ">> \o memoria.nombre_usuario \o <<","," ","¿","v","e","r","d","a","d","?">>
           ELSE <<"A","ú","n"," ","n","o"," ","m","e"," ","h","a","s"," ","d","i","c","h","o"," ","t","u"," ","n","o","m","b","r","e","."," ","P","u","e","d","e","s"," ","d","e","c","i","r"," ","'","m","i"," ","n","o","m","b","r","e"," ","e","s",".",".",".","'"," ","p","a","r","a"," ","q","u","e"," ","l","o"," ","r","e","c","u","e","r","d","e",".">>,
           ActionNone, FALSE, <<>>, <<>>)

KwRecuerdaQue == <<"r","e","c","u","e","r","d","a"," ","q","u","e">>
SepEs == <<" ","e","s"," ">>
SepSon == <<" ","s","o","n"," ">>

\* the reply of _handle_remember_fact when the split raises ValueError
FormatHint ==
    <<"P","a","r","a"," ","q","u","e"," ","r","e","c","u","e","r","d","e"," ","a","l","g","o",","," ","p","o","r"," ","f","a","v","o","r"," ","u","s","a"," ","e","l"," ","f","o","r","m","a","t","o",":"," ","'","r","e","c","u","e","r","d","a"," ","q","u","e"," ","[","d","a","t","o","]"," ","e","s"," ","[","v","a","l","o","r","]","'",".">>

\* dato_a_recordar of _handle_remember_fact
DatoARecordar(comando) == Strip(ReplaceFirst(comando, KwRecuerdaQue, <<>>))

\* _handle_remember_fact with str.partition in place of split and unpacking:
\* a text without separator is stored whole, with an empty value
_handle_remember_fact_Partition(memoria, comando) ==
    LET dato_a_recordar == DatoARecordar(comando)
        separador == IF Contains(dato_a_recordar, SepEs) THEN SepEs ELSE SepSon
        partes == Split1(dato_a_recordar, separador)
        clave == Strip(partes[1])
        valor == IF Len(partes) = 2 THEN Strip(partes[2]) ELSE <<>>
    IN  Result("_handle_remember_fact",
               [memoria EXCEPT !.datos_aprendidos = DictSet(@, clave, valor)],
               <<"E","n","t","e","n","d","i","d","o","."," ","H","e"," ","g","u","a","r","d","a","d","o"," ","q","u","e"," ","'">> \o clave \o <<"'"," ","e","s"," ","'">>
                   \o valor \o <<"'",".">>,
               ActionNone, TRUE, <<>>, <<>>)

_handle_remember_fact(memoria, comando) ==
    LET dato_a_recordar == DatoARecordar(comando)
        separador == IF Contains(dato_a_recordar, SepEs) THEN SepEs ELSE SepSon
        partes == Split1(dato_a_recordar, separador)
    IN  IF Len(partes) = 2
        THEN LET clave == Strip(partes[1])
                 valor == Strip(partes[2])
             IN  Result("_handle_remember_fact",
                        [memoria EXCEPT !.datos_aprendidos = DictSet(@, clave, valor)],
                        <<"E","n","t","e","n","d","i","d","o","."," ","H","e"," ","g","u","a","r","d","a","d","o"," ","q","u","e"," ","'">> \o clave \o <<"'"," ","e","s"," ","'">>
                            \o valor \o <<"'",".">>,
                        ActionNone, TRUE, <<>>, <<>>)
        ELSE Result("_handle_remember_fact", memoria, FormatHint,
                    ActionNone, FALSE, <<>>, <<>>)

KwQueSabesSobre == <<"q","u","é"," ","s","a","b","e","s"," ","s","o","b","r","e">>
KwRecuerdame == <<"r","e","c","u","é","r","d","a","m","e">>

\* clave_a_buscar without the final strip()
ClaveABuscar_NoStrip(comando) ==
    ReplaceAll(ReplaceAll(comando, KwQueSabesSobre, <<>>), KwRecuerdame, <<>>)

\* clave_a_buscar of _handle_recall_fact
ClaveABuscar(comando) ==
    Strip(ReplaceAll(ReplaceAll(comando, KwQueSabesSobre, <<>>), KwRecuerdame, <<>>))

\* _handle_recall_fact keeping the answer of the LLM as a learned fact
_handle_recall_fact_Learns(memoria, history, comando, llm) ==
    LET clave_a_buscar == ClaveABuscar(comando)
        datos == memoria.datos_aprendidos
        hit == HasKey(datos, clave_a_buscar) /\ DictGet(datos, clave_a_buscar) # <<>>
    IN  IF hit
        THEN Result("_handle_recall_fact", memoria,
                    <<"R","e","c","u","e","r","d","o"," ","q","u","e"," ">> \o clave_a_buscar \o <<" ","e","s"," ">>
                        \o DictGet(datos, clave_a_buscar) \o <<".">>,
                    ActionNone, FALSE, <<>>, <<>>)
        ELSE Result("_handle_recall_fact",
                    [memoria EXCEPT !.datos_aprendidos =
                        DictSet(datos, clave_a_buscar, pensar_con_gemini(llm))],
                    <<"N","o"," ","t","e","n","g","o"," ","i","n","f","o","r","m","a","c","i","ó","n"," ","e","s","p","e","c","í","f","i","c","a"," ","s","o","b","r","e"," ","'">> \o clave_a_buscar
                        \o <<"'","."," ","L","e"," ","p","r","e","g","u","n","t","a","r","é"," ","a"," ","m","i"," ","c","e","r","e","b","r","o"," ","e","x","t","e","r","n","o",".">>
                        \o <<" ","S","e","g","ú","n"," ","m","i"," ","i","n","f","o","r","m","a","c","i","ó","n",","," ">> \o pensar_con_gemini(llm),
                    ActionNone, FALSE,
                    <<Prompt(memoria, history, clave_a_buscar)>>, <<>>)

_handle_recall_fact(memoria, history, comando, llm) ==
    LET clave_a_buscar == ClaveABuscar(comando)
        datos == memoria.datos_aprendidos
        hit == HasKey(datos, clave_a_buscar) /\ DictGet(datos, clave_a_buscar) # <<>>
    IN  IF hit
        THEN Result("_handle_recall_fact", memoria,
                    <<"R","e","c","u","e","r","d","o"," ","q","u","e"," ">> \o clave_a_buscar \o <<" ","e","s"," ">>
                        \o DictGet(datos, clave_a_buscar) \o <<".">>,
                    ActionNone, FALSE, <<>>, <<>>)
        ELSE Result("_handle_recall_fact", memoria,
                    <<"N","o"," ","t","e","n","g","o"," ","i","n","f","o","r","m","a","c","i","ó","n"," ","e","s","p","e","c","í","f","i","c","a"," ","s","o","b","r","e"," ","'">> \o clave_a_buscar
                        \o <<"'","."," ","L","e"," ","p","r","e","g","u","n","t","a","r","é"," ","a"," ","m","i"," ","c","e","r","e","b","r","o"," ","e","x","t","e","r","n","o",".">>
                        \o <<" ","S","e","g","ú","n"," ","m","i"," ","i","n","f","o","r","m","a","c","i","ó","n",","," ">> \o pensar_con_gemini(llm),
                    ActionNone, FALSE,
                    <<Prompt(memoria, history, clave_a_buscar)>>, <<>>)

KwAbre == <<"a","b","r","e">>
KwInicia == <<"i","n","i","c","i","a">>

_handle_open_website(memoria, comando) ==
    LET stripped == Strip(ReplaceAll(ReplaceAll(comando, KwAbre, <<>>), KwInicia, <<>>))
        sitio_web == IF StartsWith(stripped, <<"h","t","t","p">>) THEN stripped
                     ELSE <<"h","t","t","p","s",":","/","/">> \o stripped
    IN  Result("_handle_open_website", memoria,
               <<"C","l","a","r","o",","," ","a","b","r","i","e","n","d","o"," ">> \o sitio_web \o <<".">>,
               ActionOpenUrl(sitio_web), FALSE, <<>>, <<>>)

KwBuscaEnGoogle == <<"b","u","s","c","a"," ","e","n"," ","g","o","o","g","l","e">>

_handle_google_search(memoria, comando) ==
    LET termino_busqueda == Strip(ReplaceAll(comando, KwBuscaEnGoogle, <<>>))
        url_busqueda == <<"h","t","t","p","s",":","/","/","w","w","w",".","g","o","o","g","l","e",".","c","o","m","/","s","e","a","r","c","h","?","q","=">>
                            \o ReplaceAll(termino_busqueda, <<" ">>, <<"+">>)
    IN  Result("_handle_google_search", memoria,
               <<"B","u","s","c","a","n","d","o"," ","'">> \o termino_busqueda \o <<"'"," ","e","n"," ","G","o","o","g","l","e",".">>,
               ActionOpenUrl(url_busqueda), FALSE, <<>>, <<>>)

KwEjecuta == <<"e","j","e","c","u","t","a">>

\* mapa_apps of _handle_execute_app, in definition order
mapa_apps ==
    << <<<<"c","a","l","c","u","l","a","d","o","r","a">>, <<"c","a","l","c",".","e","x","e">>>>,
       <<<<"b","l","o","c"," ","d","e"," ","n","o","t","a","s">>, <<"n","o","t","e","p","a","d",".","e","x","e">>>>,
       <<<<"e","x","p","l","o","r","a","d","o","r"," ","d","e"," ","a","r","c","h","i","v","o","s">>, <<"e","x","p","l","o","r","e","r",".","e","x","e">>>> >>

\* _handle_execute_app testing 'win' in sys.platform
_handle_execute_app_WinAnywhere(memoria, comando, plat) ==
    LET aplicacion == Lower(Strip(ReplaceAll(comando, KwEjecuta, <<>>)))
        found == {i \in 1..Len(mapa_apps) : Contains(aplicacion, mapa_apps[i][1])}
    IN  IF ~Contains(plat, <<"w","i","n">>)
        THEN Result("_handle_execute_app", memoria,
                    <<"L","o"," ","s","i","e","n","t","o",","," ","l","a"," ","f","u","n","c","i","ó","n"," ","d","e"," ","e","j","e","c","u","t","a","r"," ","a","p","l","i","c","a","c","i","o","n","e","s"," ","c","o","m","o"," ","'">>
                        \o aplicacion
                        \o <<"'"," ","s","o","l","o"," ","e","s","t","á"," ","d","i","s","p","o","n","i","b","l","e"," ","c","u","a","n","d","o"," ","o","p","e","r","o"," ","e","n"," ","u","n"," ","s","i","s","t","e","m","a"," ","W","i","n","d","o","w","s",".">>,
                    ActionNone, FALSE, <<>>, <<>>)
        ELSE IF found # {}
        THEN LET i == CHOOSE i \in found : \A j \in found : i <= j
             IN  Result("_handle_execute_app", memoria,
                        <<"E","j","e","c","u","t","a","n","d","o"," ">> \o mapa_apps[i][1] \o <<".">>,
                        ActionNone, FALSE, <<>>, <<mapa_apps[i][2]>>)
        ELSE Result("_handle_execute_app", memoria,
                    <<"N","o"," ","s","é"," ","c","ó","m","o"," ","e","j","e","c","u","t","a","r"," ","'">> \o aplicacion
                        \o <<"'","."," ","P","u","e","d","e","s"," ","e","n","s","e","ñ","a","r","m","e"," ","a","g","r","e","g","á","n","d","o","l","o"," ","a","l"," ","c","ó","d","i","g","o",".">>,
                    ActionNone, FALSE, <<>>, <<>>)

_handle_execute_app(memoria, comando, plat) ==
    LET aplicacion == Lower(Strip(ReplaceAll(comando, KwEjecuta, <<>>)))
        found == {i \in 1..Len(mapa_apps) : Contains(aplicacion, mapa_apps[i][1])}
    IN  IF ~StartsWith(plat, <<"w","i","n">>)
        THEN Result("_handle_execute_app", memoria,
                    <<"L","o"," ","s","i","e","n","t","o",","," ","l","a"," ","f","u","n","c","i","ó","n"," ","d","e"," ","e","j","e","c","u","t","a","r"," ","a","p","l","i","c","a","c","i","o","n","e","s"," ","c","o","m","o"," ","'">>
                        \o aplicacion
                        \o <<"'"," ","s","o","l","o"," ","e","s","t","á"," ","d","i","s","p","o","n","i","b","l","e"," ","c","u","a","n","d","o"," ","o","p","e","r","o"," ","e","n"," ","u","n"," ","s","i","s","t","e","m","a"," ","W","i","n","d","o","w","s",".">>,
                    ActionNone, FALSE, <<>>, <<>>)
        ELSE IF found # {}
        THEN LET i == CHOOSE i \in found : \A j \in found : i <= j
             IN  Result("_handle_execute_app", memoria,
                        <<"E","j","e","c","u","t","a","n","d","o"," ">> \o mapa_apps[i][1] \o <<".">>,
                        ActionNone, FALSE, <<>>, <<mapa_apps[i][2]>>)
        ELSE Result("_handle_execute_app", memoria,
                    <<"N","o"," ","s","é"," ","c","ó","m","o"," ","e","j","e","c","u","t","a","r"," ","'">> \o aplicacion
                        \o <<"'","."," ","P","u","e","d","e","s"," ","e","n","s","e","ñ","a","r","m","e"," ","a","g","r","e","g","á","n","d","o","l","o"," ","a","l"," ","c","ó","d","i","g","o",".">>,
                    ActionNone, FALSE, <<>>, <<>>)

_handle_exit(memoria, comando) ==
    Result("_handle_exit", memoria,
           IF memoria.nombre_usuario = <<"t","ú">>
           THEN <<"¡","H","a","s","t","a"," ","p","r","o","n","t","o","!">>
           ELSE <<"¡","H","a","s","t","a"," ","p","r","o","n","t","o",","," ">> \o memoria.nombre_usuario \o <<"!">>,
           ActionExit, FALSE, <<>>, <<>>)

----------------------------------------------------------------------------
(* Command texts *)

\* request texts (the field 'comando'), before the endpoint lower-cases them
RawTexts ==
    { <<>>, <<" ">>,
      <<"L","u","n","a">>,
      <<"m","i"," ","n","o","m","b","r","e"," ","e","s"," ","J","u","a","n">>,
      <<"r","e","c","u","e","r","d","a"," ","q","u","e"," ","e","l"," ","c","i","e","l","o"," ","e","s"," ","a","z","u","l">>,
      <<"q","u","é"," ","s","a","b","e","s"," ","s","o","b","r","e"," ","e","l"," ","c","i","e","l","o">>,
      <<"h","o","l","a">>,
      <<"a","b","r","e"," ","y"," ","e","j","e","c","u","t","a">> }

\* leading parts of the command texts given to pensar_y_responder
TextHeads ==
    { <<>>, <<"m","i"," ","n","o","m","b","r","e"," ","e","s"," ">>, <<"r","e","c","u","e","r","d","a"," ","q","u","e"," ">>, <<"q","u","é"," ","s","a","b","e","s"," ","s","o","b","r","e"," ">>,
      <<"r","e","i","n","i","c","i","a"," ">>, <<"e","j","e","c","u","t","a"," ">>, <<"a","d","i","ó","s"," ">> }

\* trailing parts of the command texts given to pensar_y_responder
TextTails ==
    { <<>>, <<"e","l"," ","c","i","e","l","o"," ","e","s"," ","a","z","u","l">>, <<"l","o","s"," ","g","a","t","o","s"," ","s","o","n"," ","f","e","l","i","n","o","s">>, <<"e","l"," ","c","i","e","l","o">>,
      <<"r","e","c","u","é","r","d","a","m","e">>, <<"c","u","á","l"," ","e","s"," ","m","i"," ","n","o","m","b","r","e">>, <<"b","u","s","c","a"," ","e","n"," ","g","o","o","g","l","e"," ","g","a","t","o","s">> }

\* command texts as interactuar passes them on (lower-cased)
RespondTexts ==
    {h \o t : h \in TextHeads, t \in TextTails}
        \cup { <<" ">>,
               <<"e","l"," ","c","i","e","l","o"," ","e","s"," ","a","z","u","l"," ","r","e","c","u","e","r","d","a"," ","q","u","e"," ","n","a","d","a">>,
               <<"r","e","c","u","e","r","d","a"," ","q","u","e"," ","r","e","c","u","é","r","d","a","m","e"," ","e","s"," ","a","z","u","l">>,
               <<"r","e","c","u","é","r","d","a","m","e"," ","e","l"," ","c","i","e","l","o">>,
               <<"q","u","é"," ","s","a","b","e","s"," ","s","o","b","r","e"," ","l","o","s"," ","g","a","t","o","s">> }

\* command texts asking for an application: mapped names, an unmapped name,
\* no name, a mapped name inside other words
ExecuteTexts ==
    { <<"e","j","e","c","u","t","a"," ","c","a","l","c","u","l","a","d","o","r","a">>, <<"e","j","e","c","u","t","a"," ","b","l","o","c"," ","d","e"," ","n","o","t","a","s">>,
      <<"e","j","e","c","u","t","a"," ","e","x","p","l","o","r","a","d","o","r"," ","d","e"," ","a","r","c","h","i","v","o","s">>, <<"e","j","e","c","u","t","a"," ","p","a","i","n","t">>, <<"e","j","e","c","u","t","a">>,
      <<"p","o","r"," ","f","a","v","o","r"," ","e","j","e","c","u","t","a"," ","l","a"," ","c","a","l","c","u","l","a","d","o","r","a"," ","y","a">> }

\* every command text a handler is given: what interactuar and
\* interactuar_stream make of the request texts, and the texts of RespondTexts
\* and ExecuteTexts
CommandTexts == {Lower(t) : t \in RawTexts} \cup RespondTexts \cup ExecuteTexts

----------------------------------------------------------------------------
(* Command dispatcher *)

\* self.command_dispatcher, in definition (= iteration) order
command_dispatcher ==
    << [handler |-> "_handle_set_user_name", keywords |-> <<KwMiNombreEs>>],
       [handler |-> "_handle_get_user_name",
        keywords |-> <<<<"¿","c","ó","m","o"," ","m","e"," ","l","l","a","m","o","?">>, <<"c","u","á","l"," ","e","s"," ","m","i"," ","n","o","m","b","r","e">>>>],
       [handler |-> "_handle_remember_fact", keywords |-> <<KwRecuerdaQue>>],
       [handler |-> "_handle_recall_fact",
        keywords |-> <<KwQueSabesSobre, KwRecuerdame>>],
       [handler |-> "_handle_open_website", keywords |-> <<KwAbre, KwInicia>>],
       [handler |-> "_handle_google_search", keywords |-> <<KwBuscaEnGoogle>>],
       [handler |-> "_handle_exit",
        keywords |-> <<<<"a","d","i","ó","s">>, <<"h","a","s","t","a"," ","l","u","e","g","o">>, <<"a","p","á","g","a","t","e">>>>] >>

\* any(keyword in comando for keyword in keywords)
EntryMatches(entry, comando) ==
    \E k \in 1..Len(entry.keywords) : Contains(comando, entry.keywords[k])

\* the table entries with a keyword in comando
MatchingEntries(comando) ==
    {i \in 1..Len(command_dispatcher) : EntryMatches(command_dispatcher[i], comando)}

\* the first entry of the table, in table order, with a keyword in comando;
\* "" when no entry matches
FirstTableMatch(comando) ==
    LET m == MatchingEntries(comando)
    IN  IF m = {} THEN ""
        ELSE command_dispatcher[CHOOSE i \in m : \A j \in m : i <= j].handler

\* handler(comando) for a handler of the table or _handle_execute_app
CallHandler(handler, memoria, history, comando, llm, plat) ==
    CASE handler = "_handle_set_user_name" -> _handle_set_user_name(memoria, comando)
      [] handler = "_handle_get_user_name" -> _handle_get_user_name(memoria, comando)
      [] handler = "_handle_remember_fact" -> _handle_remember_fact(memoria, comando)
      [] handler = "_handle_recall_fact" ->
            _handle_recall_fact(memoria, history, comando, llm)
      [] handler = "_handle_open_website" -> _handle_open_website(memoria, comando)
      [] handler = "_handle_google_search" -> _handle_google_search(memoria, comando)
      [] handler = "_handle_exit" -> _handle_exit(memoria, comando)
      [] handler = "_handle_execute_app" -> _handle_execute_app(memoria, comando, plat)

\* what the dispatch loops read of comando: the first matching table entry
\* and whether "ejecuta" is in it
Scan(comando) ==
    [comando |-> comando, matched |-> FirstTableMatch(comando),
     ejecuta |-> Contains(comando, KwEjecuta)]

\* Scan over the command texts, computed once
Scanned == {Scan(c) : c \in CommandTexts}

\* Scan(comando), looked up in Scanned when comando is one of CommandTexts
Dispatch(comando) ==
    IF comando \in CommandTexts
    THEN CHOOSE d \in Scanned : d.comando = comando
    ELSE Scan(comando)

\* pensar_y_responder looking at memoria["nombre_usuario"] for the name gate
SelectTarget_WrongKey(memoria, comando) ==
    LET d == Dispatch(comando)
    IN  IF comando = <<>> THEN "empty"
        ELSE IF memoria.nombre_usuario = <<>> THEN "_handle_set_ia_name"
        ELSE IF d.matched # "" THEN d.matched
        ELSE IF d.ejecuta THEN "_handle_execute_app"
        ELSE "pensar_con_gemini"

\* pensar_y_responder with the table scanned before the name is looked at
SelectTarget_TableFirst(memoria, comando) ==
    LET d == Dispatch(comando)
    IN  IF comando = <<>> THEN "empty"
        ELSE IF d.matched # "" THEN d.matched
        ELSE IF memoria.nombre = <<>> THEN "_handle_set_ia_name"
        ELSE IF d.ejecuta THEN "_handle_execute_app"
        ELSE "pensar_con_gemini"

\* pensar_y_responder with "ejecuta" looked for before the table
SelectTarget_EjecutaFirst(memoria, comando) ==
    LET d == Dispatch(comando)
    IN  IF comando = <<>> THEN "empty"
        ELSE IF memoria.nombre = <<>> THEN "_handle_set_ia_name"
        ELSE IF d.ejecuta THEN "_handle_execute_app"
        ELSE IF d.matched # "" THEN d.matched
        ELSE "pensar_con_gemini"

\* the target pensar_y_responder selects for comando
SelectTarget(memoria, comando) ==
    LET d == Dispatch(comando)
    IN  IF comando = <<>> THEN "empty"
        ELSE IF memoria.nombre = <<>> THEN "_handle_set_ia_name"
        ELSE IF d.matched # "" THEN d.matched
        ELSE IF d.ejecuta THEN "_handle_execute_app"
        ELSE "pensar_con_gemini"

\* Nexus.pensar_y_responder
pensar_y_responder(memoria, history, comando, llm, plat) ==
    LET target == SelectTarget(memoria, comando)
    IN  CASE target = "empty" ->
                Result("empty", memoria, <<>>, ActionNone, FALSE, <<>>, <<>>)
          [] target = "_handle_set_ia_name" -> _handle_set_ia_name(memoria, comando)
          [] target = "pensar_con_gemini" ->
                Result("pensar_con_gemini", memoria, pensar_con_gemini(llm),
                       ActionNone, FALSE, <<Prompt(memoria, history, comando)>>, <<>>)
          [] OTHER -> CallHandler(target, memoria, history, comando, llm, plat)

----------------------------------------------------------------------------
(* Memory store: json.dumps / json.loads and the two backends.  A JSON     *)
(* text is kept as the tree it denotes: <<"str", s>>, <<"arr", items>> or  *)
(* <<"obj", members>> with members a sequence of <<key, tree>>.            *)

JsonStr(s) == <<"str", s>>
JsonArr(items) == <<"arr", items>>
JsonObj(members) == <<"obj", members>>

\* dict.get(key, default) on a decoded JSON object
JsonGet(obj, key, default) ==
    LET m == obj[2]
    IN  IF \E i \in 1..Len(m) : m[i][1] = key
        THEN m[CHOOSE i \in 1..Len(m) : m[i][1] = key][2]
        ELSE default

\* json.dumps(self.memoria)
DumpsMemoria(memoria) ==
    JsonObj(<< <<"nombre", JsonStr(memoria.nombre)>>,
               <<"nombre_usuario", JsonStr(memoria.nombre_usuario)>>,
               <<"datos_aprendidos",
                 JsonObj([i \in 1..Len(memoria.datos_aprendidos) |->
                            <<memoria.datos_aprendidos[i][1],
                              JsonStr(memoria.datos_aprendidos[i][2])>>])>> >>)

\* json.dumps(self.conversation_history)
DumpsHistory(history) == JsonArr([i \in 1..Len(history) |-> JsonStr(history[i])])

\* json.loads of a memory object
LoadsMemoria(json) ==
    LET datos == JsonGet(json, "datos_aprendidos", JsonObj(<<>>))[2]
    IN  [nombre |-> JsonGet(json, "nombre", JsonStr(<<>>))[2],
         nombre_usuario |-> JsonGet(json, "nombre_usuario", JsonStr(<<>>))[2],
         datos_aprendidos |-> [i \in 1..Len(datos) |-> <<datos[i][1], datos[i][2][2]>>]]

\* json.loads of a transcript array
LoadsHistory(json) == [i \in 1..Len(json[2]) |-> json[2][i][2]]

\* the agent state (self.memoria, self.conversation_history)
Agent(memoria, history) == [memoria |-> memoria, conversation_history |-> history]

BlankAgent == Agent(BlankMemoria, <<>>)

\* the record _guardar_memoria writes: a row of table memories (db), or the
\* content of memoria_<session_id>.json (file)
Record(bk, memoria, history) ==
    IF bk = "db"
    THEN [memory_json |-> DumpsMemoria(memoria), history_json |-> DumpsHistory(history)]
    ELSE [content |-> JsonObj(<< <<"memoria", DumpsMemoria(memoria)>>,
                                 <<"historial", DumpsHistory(history)>> >>)]

\* _guardar_memoria writing one record that every session shares
_guardar_memoria_OneRecord(st, bk, sid, memoria, history, ok) ==
    IF ok
    THEN [s \in DOMAIN st \cup {sid} |-> Record(bk, memoria, history)]
    ELSE st

\* Nexus._guardar_memoria: upsert of the session's record; a failure is logged
\* and leaves the store as it was
_guardar_memoria(st, bk, sid, memoria, history, ok) ==
    IF ok
    THEN [s \in DOMAIN st \cup {sid} |->
            IF s = sid THEN Record(bk, memoria, history) ELSE st[s]]
    ELSE st

\* _cargar_memoria reading the transcript of the file under the key "history"
\* and taking an empty transcript for the row whatever history_json holds
_cargar_memoria_WrongKey(st, bk, sid, ok) ==
    IF ~ok \/ sid \notin DOMAIN st THEN BlankAgent
    ELSE IF bk = "db"
    THEN Agent(LoadsMemoria(st[sid].memory_json), <<>>)
    ELSE LET data == st[sid].content
         IN  Agent(LoadsMemoria(JsonGet(data, "memoria", data)),
                   LoadsHistory(JsonGet(data, "history", JsonArr(<<>>))))

\* Nexus._cargar_memoria: the stored record decoded, or the blank state on a
\* miss or on a failure of the backend
_cargar_memoria(st, bk, sid, ok) ==
    IF ~ok \/ sid \notin DOMAIN st THEN BlankAgent
    ELSE IF bk = "db"
    THEN Agent(LoadsMemoria(st[sid].memory_json),
               IF st[sid].history_json # <<>>
               THEN LoadsHistory(st[sid].history_json) ELSE <<>>)
    ELSE LET data == st[sid].content
         IN  Agent(LoadsMemoria(JsonGet(data, "memoria", data)),
                   LoadsHistory(JsonGet(data, "historial", JsonArr(<<>>))))

\* Nexus._cargar_memoria raises: the local file decodes to JSON that is not an
\* object, so data.get raises AttributeError, which the handler for
\* json.JSONDecodeError does not catch
LoadRaises(st, bk, sid) ==
    bk = "file" /\ sid \in DOMAIN st /\ st[sid].content[1] # "obj"

----------------------------------------------------------------------------
(* Session registry *)

\* NexusInstanceManager.get_or_create_instance: the agents after the call
get_or_create_instance(insts, st, bk, sid, loadOk) ==
    IF sid \in DOMAIN insts THEN insts
    ELSE [s \in DOMAIN insts \cup {sid} |->
            IF s = sid THEN _cargar_memoria(st, bk, sid, loadOk) ELSE insts[s]]

\* list(instance_manager._instances.keys()) after get_or_create_instance
KeysAfter(ord, sid) ==
    IF \E i \in 1..Len(ord) : ord[i] = sid THEN ord ELSE Append(ord, sid)

\* Nexus.saludar
saludar(memoria) ==
    IF memoria.nombre # <<>>
    THEN IF memoria.nombre_usuario # <<>>
         THEN <<"¡","H","o","l","a"," ","d","e"," ","n","u","e","v","o",","," ">> \o memoria.nombre_usuario \o <<"!"," ","S","o","y"," ">>
                  \o memoria.nombre \o <<" ","y"," ","e","s","t","o","y"," ","l","i","s","t","a"," ","p","a","r","a"," ","a","y","u","d","a","r","t","e",".">>
         ELSE <<"¡","H","o","l","a"," ","d","e"," ","n","u","e","v","o","!"," ","S","o","y"," ">> \o memoria.nombre
                  \o <<"."," ","E","s","t","o","y"," ","l","i","s","t","a"," ","p","a","r","a"," ","a","y","u","d","a","r","t","e",".">>
    ELSE <<"H","o","l","a",","," ","s","o","y"," ","t","u"," ","n","u","e","v","a"," ","I","A","."," ","A","ú","n"," ","n","o"," ","t","e","n","g","o"," ","u","n"," ","n","o","m","b","r","e","."," ","P","o","r"," ","f","a","v","o","r",","," ","d","i","m","e"," ","c","ó","m","o"," ","q","u","i","e","r","e","s"," ","l","l","a","m","a","r","m","e",".">>

----------------------------------------------------------------------------
(* Bounds and inputs *)

\* requests served in one behaviour of Spec and of SpecFaults
MaxRequests == 2

\* backend failures (a load or a save that raises) in one behaviour
MaxFaults == 1

\* calls of pensar_y_responder in one behaviour of SpecRespond
MaxCalls == 2

\* requests served in one behaviour of SpecRegistry
MaxRegistryRequests == 3

\* length of the transcripts saved in SpecStore
MaxTranscript == 2

\* calls of the store in one behaviour of SpecStore
MaxStoreCalls == 2

\* turns of the longest transcript SpecPrompt starts from
MaxTurns == 4

\* the capacity the Session Registry is specified to have
Capacity == 2

\* session identifiers carried by the X-Session-ID header
SessionIds == {"s1", "s2"}

\* session identifiers of SpecRegistry
RegistrySessionIds == {"s1", "s2", "s3"}

\* outcomes of modelo.generate_content(prompt): a text (in chunks when
\* streamed), an empty text, or an exception (after the chunks, when streamed)
LlmOutcomes ==
    { [ok |-> TRUE, text |-> <<"b","i","e","n">>, chunks |-> <<<<"b","i">>, <<>>, <<"e","n">>>>],
      [ok |-> TRUE, text |-> <<>>, chunks |-> <<>>],
      [ok |-> FALSE, text |-> <<>>, chunks |-> <<<<"b","i">>, <<"e","n">>>>] }

\* the outcome used when the provider is not called
NoLlm == [ok |-> TRUE, text |-> <<>>, chunks |-> <<>>]

\* outcomes of a backend call that may raise: TRUE when it succeeds
Outcomes(possible) == IF possible /\ faults < MaxFaults THEN BOOLEAN ELSE {TRUE}

\* the number of failures among the outcomes of the backend calls of a request
Failures(oks) == Cardinality({i \in 1..Len(oks) : ~oks[i]})

----------------------------------------------------------------------------
(* Endpoints *)

Event(kind, speech, action) == [kind |-> kind, speech |-> speech, action |-> action]

\* what a request was given and what it did: the observation kept in last
Observation(endpoint, sid, comando, status, r, llm, events, saved) ==
    [endpoint |-> endpoint, sid |-> sid, comando |-> comando, status |-> status,
     target |-> r.target, speech |-> r.speech, action |-> r.action,
     events |-> events, prompts |-> r.prompts, spawned |-> r.spawned,
     llm |-> llm, saved |-> saved, sessions |-> <<>>]

NoResult == Result("", BlankMemoria, <<>>, ActionNone, FALSE, <<>>, <<>>)

NoObservation == Observation("none", "", <<>>, 0, NoResult, NoLlm, <<>>, FALSE)

\* the transcript after the reply of a turn: an empty reply is not appended
AppendSpeech(history, speech) ==
    IF speech # <<>> THEN Append(history, speech) ELSE history

\* the endpoint saving before it appends the reply
SavedHistory_BeforeReply(hist1, speech) == hist1

\* the transcript the endpoint saves at the end of the interaction
SavedHistory(hist1, speech) == AppendSpeech(hist1, speech)

\* the body of both interaction endpoints after dispatch: r is the handler's
\* result on the transcript hist1 that already holds the user text; ok1 and
\* ok2 are the outcomes of the handler's save and of the endpoint's save
Complete(endpoint, sid, comando, insts, hist1, r, llm, events, loadOk, ok1, ok2) ==
    LET st1 == IF r.saved
               THEN _guardar_memoria(store, backend, sid, r.memoria, hist1, ok1)
               ELSE store
        hist2 == AppendSpeech(hist1, r.speech)
    IN  /\ faults + Failures(<<loadOk, ok1, ok2>>) <= MaxFaults
        /\ instances' = [insts EXCEPT ![sid] = Agent(r.memoria, hist2)]
        /\ store' = _guardar_memoria(st1, backend, sid, r.memoria,
                                     SavedHistory(hist1, r.speech), ok2)
        /\ order' = KeysAfter(order, sid)
        /\ last' = Observation(endpoint, sid, comando, 200, r, llm, events, ok2)
        /\ faults' = faults + Failures(<<loadOk, ok1, ok2>>)
        /\ nreq' = nreq + 1
        /\ UNCHANGED <<backend, platform, threads>>

\* POST /interact with a session header and a 'comando' field
interactuar(sid, raw) ==
    \E loadOk \in Outcomes(sid \notin DOMAIN instances /\ sid \in DOMAIN store) :
    \E insts \in {get_or_create_instance(instances, store, backend, sid, loadOk)},
       comando \in {Lower(raw)} :
        LET hist1 == Append(insts[sid].conversation_history, comando)
            memoria == insts[sid].memoria
        IN  \E r0 \in {pensar_y_responder(memoria, hist1, comando, NoLlm, platform)} :
            \E llm \in IF r0.prompts = <<>> THEN {NoLlm} ELSE LlmOutcomes :
            \E ok1 \in Outcomes(r0.saved), ok2 \in Outcomes(TRUE) :
            \E r \in {IF llm = NoLlm THEN r0
                      ELSE pensar_y_responder(memoria, hist1, comando, llm, platform)} :
                Complete("interact", sid, comando, insts, hist1, r, llm,
                         <<Event("response", r.speech, r.action)>>,
                         loadOk, ok1, ok2)

\* matched_handler of generate_events: the first table entry with a keyword in
\* comando, replaced by _handle_execute_app whenever "ejecuta" is in comando
StreamTarget(comando) ==
    LET d == Dispatch(comando)
    IN  IF d.ejecuta THEN "_handle_execute_app" ELSE d.matched

\* generate_events with full_response_text = text_chunk in place of +=
StreamResult_LastChunk(memoria, hist1, comando, llm, plat) ==
    LET matched_handler == StreamTarget(comando)
        fragments == pensar_con_gemini_stream(llm)
    IN  IF matched_handler # ""
        THEN CallHandler(matched_handler, memoria, hist1, comando, llm, plat)
        ELSE Result("pensar_con_gemini_stream", memoria,
                    IF fragments = <<>> THEN <<>> ELSE fragments[Len(fragments)],
                    ActionNone, FALSE, <<Prompt(memoria, hist1, comando)>>, <<>>)

\* generate_events up to the handler's reply or the end of the stream
StreamResult(memoria, hist1, comando, llm, plat) ==
    LET matched_handler == StreamTarget(comando)
    IN  IF matched_handler # ""
        THEN CallHandler(matched_handler, memoria, hist1, comando, llm, plat)
        ELSE Result("pensar_con_gemini_stream", memoria,
                    Concat(pensar_con_gemini_stream(llm)), ActionNone, FALSE,
                    <<Prompt(memoria, hist1, comando)>>, <<>>)

\* generate_events with the done event yielded inside the streaming branch
StreamEvents_DoneAfterChunks(r, llm) ==
    IF r.target # "pensar_con_gemini_stream"
    THEN <<Event("response", r.speech, r.action)>>
    ELSE LET fragments == pensar_con_gemini_stream(llm)
         IN  [i \in 1..Len(fragments) |->
                   Event("speech_chunk", fragments[i], ActionNone)]
                 \o <<Event("done", <<>>, ActionNone)>>

\* the events generate_events yields, in order
StreamEvents(r, llm) ==
    (IF r.target # "pensar_con_gemini_stream"
     THEN <<Event("response", r.speech, r.action)>>
     ELSE LET fragments == pensar_con_gemini_stream(llm)
          IN  [i \in 1..Len(fragments) |->
                    Event("speech_chunk", fragments[i], ActionNone)])
        \o <<Event("done", <<>>, ActionNone)>>

\* POST /interact-stream with a session header and a 'comando' field, the
\* response consumed to its end
interactuar_stream(sid, raw) ==
    \E loadOk \in Outcomes(sid \notin DOMAIN instances /\ sid \in DOMAIN store) :
    \E insts \in {get_or_create_instance(instances, store, backend, sid, loadOk)},
       comando \in {Lower(raw)} :
        LET hist1 == Append(insts[sid].conversation_history, comando)
            memoria == insts[sid].memoria
        IN  \E r0 \in {StreamResult(memoria, hist1, comando, NoLlm, platform)} :
            \E llm \in IF r0.prompts = <<>> THEN {NoLlm} ELSE LlmOutcomes :
            \E ok1 \in Outcomes(r0.saved), ok2 \in Outcomes(TRUE) :
            \E r \in {IF llm = NoLlm THEN r0
                      ELSE StreamResult(memoria, hist1, comando, llm, platform)} :
                Complete("interact-stream", sid, comando, insts, hist1, r, llm,
                         StreamEvents(r, llm), loadOk, ok1, ok2)

\* /saludo appending the greeting to the transcript and saving
saludo_inicial_Recorded(sid) ==
    \E loadOk \in Outcomes(sid \notin DOMAIN instances /\ sid \in DOMAIN store) :
    \E insts \in {get_or_create_instance(instances, store, backend, sid, loadOk)} :
        LET speech == saludar(insts[sid].memoria)
            history == Append(insts[sid].conversation_history, speech)
        IN  /\ instances' = [insts EXCEPT ![sid].conversation_history = history]
            /\ store' = _guardar_memoria(store, backend, sid, insts[sid].memoria,
                                         history, TRUE)
            /\ order' = KeysAfter(order, sid)
            /\ last' = Observation("saludo", sid, <<>>, 200,
                                   [NoResult EXCEPT !.speech = speech,
                                                    !.target = "saludar"],
                                   NoLlm, <<Event("response", speech, ActionNone)>>,
                                   FALSE)
            /\ faults' = faults + Failures(<<loadOk>>)
            /\ nreq' = nreq + 1
            /\ UNCHANGED <<backend, platform, threads>>

\* GET /saludo with a session header
saludo_inicial(sid) ==
    \E loadOk \in Outcomes(sid \notin DOMAIN instances /\ sid \in DOMAIN store) :
    \E insts \in {get_or_create_instance(instances, store, backend, sid, loadOk)} :
        LET speech == saludar(insts[sid].memoria)
        IN  /\ instances' = insts
            /\ order' = KeysAfter(order, sid)
            /\ last' = Observation("saludo", sid, <<>>, 200,
                                   [NoResult EXCEPT !.speech = speech,
                                                    !.target = "saludar"],
                                   NoLlm, <<Event("response", speech, ActionNone)>>,
                                   FALSE)
            /\ faults' = faults + Failures(<<loadOk>>)
            /\ nreq' = nreq + 1
            /\ UNCHANGED <<store, backend, platform, threads>>

\* a request for a session whose agent cannot be constructed: Nexus.__init__
\* raises out of get_or_create_instance and no agent is registered; /interact
\* answers 500 from its except clause, /saludo 500 from the framework, and
\* the stream of /interact-stream, already started with 200, ends eventless
load_error(endpoint, sid, raw) ==
    /\ sid \notin DOMAIN instances
    /\ LoadRaises(store, backend, sid)
    /\ last' = Observation(endpoint, sid,
                           IF endpoint = "saludo" THEN <<>> ELSE Lower(raw),
                           IF endpoint = "interact-stream" THEN 200 ELSE 500,
                           NoResult, NoLlm, <<>>, FALSE)
    /\ nreq' = nreq + 1
    /\ UNCHANGED <<instances, order, store, backend, platform, threads, faults>>

\* GET /admin/sessions
get_active_sessions ==
    /\ last' = [Observation("admin/sessions", "", <<>>, 200, NoResult, NoLlm,
                            <<>>, FALSE) EXCEPT !.sessions = order]
    /\ nreq' = nreq + 1
    /\ UNCHANGED <<instances, order, store, backend, platform, threads, faults>>

----------------------------------------------------------------------------
(* The service: requests served one after the other.  In Spec the backend  *)
(* never fails; in SpecFaults loads and saves may fail, up to MaxFaults     *)
(* times, and one session is served.                                        *)

\* the service starts: no agent in the registry, nothing persisted
Started ==
    /\ instances = <<>>
    /\ order = <<>>
    /\ store = <<>>
    /\ backend \in {"db", "file"}
    /\ platform = <<"l","i","n","u","x">>
    /\ threads = <<>>
    /\ last = NoObservation
    /\ nreq = 0

Init == Started /\ faults = MaxFaults

Next ==
    \/ nreq < MaxRequests /\ \E sid \in SessionIds, raw \in RawTexts :
            interactuar(sid, raw)
    \/ nreq < MaxRequests /\ \E sid \in SessionIds, raw \in RawTexts :
            interactuar_stream(sid, raw)
    \/ nreq < MaxRequests /\ \E sid \in SessionIds : saludo_inicial(sid)

Spec == Init /\ [][Next]_vars

InitFaults == Started /\ faults = 0

NextFaults ==
    \/ nreq < MaxRequests /\ \E raw \in RawTexts : interactuar("s1", raw)
    \/ nreq < MaxRequests /\ \E raw \in RawTexts : interactuar_stream("s1", raw)
    \/ nreq < MaxRequests /\ saludo_inicial("s1")

SpecFaults == InitFaults /\ [][NextFaults]_vars

----------------------------------------------------------------------------
(* The registry alone: greetings and one command text over three sessions. *)

NextRegistry ==
    \/ nreq < MaxRegistryRequests /\ \E sid \in RegistrySessionIds :
            saludo_inicial(sid)
    \/ nreq < MaxRegistryRequests /\ \E sid \in RegistrySessionIds :
            interactuar(sid, <<"L","u","n","a">>)
    \/ nreq < MaxRegistryRequests /\ get_active_sessions

SpecRegistry == Init /\ [][NextRegistry]_vars

----------------------------------------------------------------------------
(* The respond entry point alone: Nexus.pensar_y_responder called on the   *)
(* agent of one session, over the command texts of RespondTexts.           *)

\* a memory an earlier run of the service persisted: the assistant is named
NamedMemoria == [BlankMemoria EXCEPT !.nombre = <<"L","u","n","a">>]

\* Nexus.pensar_y_responder(comando) on the agent of session sid
Responder(sid, comando) ==
    LET agent == instances[sid]
        history == agent.conversation_history
    IN  \E r0 \in {pensar_y_responder(agent.memoria, history, comando, NoLlm, platform)} :
        \E llm \in IF r0.prompts = <<>> THEN {NoLlm} ELSE LlmOutcomes :
        \E ok1 \in Outcomes(r0.saved) :
        \E r \in {IF llm = NoLlm THEN r0
                  ELSE pensar_y_responder(agent.memoria, history, comando, llm,
                                          platform)} :
            /\ instances' = [instances EXCEPT ![sid] = Agent(r.memoria, history)]
            /\ store' = IF r.saved
                        THEN _guardar_memoria(store, backend, sid, r.memoria,
                                              history, ok1)
                        ELSE store
            /\ last' = Observation("pensar_y_responder", sid, comando, 200, r,
                                   llm, <<>>, r.saved /\ ok1)
            /\ faults' = faults + Failures(<<ok1>>)
            /\ nreq' = nreq + 1
            /\ UNCHANGED <<order, backend, platform, threads>>

\* session s1 has an agent, loaded from a blank or from a persisted memory
InitRespond ==
    /\ \E memoria \in {BlankMemoria, NamedMemoria} :
        /\ instances = [s \in {"s1"} |-> Agent(memoria, <<>>)]
        /\ store = IF memoria = BlankMemoria THEN <<>>
                   ELSE [s \in {"s1"} |-> Record("db", memoria, <<>>)]
    /\ order = <<"s1">>
    /\ backend = "db"
    /\ platform = <<"l","i","n","u","x">>
    /\ threads = <<>>
    /\ last = NoObservation
    /\ faults = MaxFaults
    /\ nreq = 0

NextRespond ==
    nreq < MaxCalls /\ \E comando \in RespondTexts : Responder("s1", comando)

SpecRespond == InitRespond /\ [][NextRespond]_vars

----------------------------------------------------------------------------
(* The memory store alone: _guardar_memoria and _cargar_memoria applied to *)
(* an agent whose memory and transcript are drawn from bounded sets.       *)

\* learned facts of the saved memories
StoreDatos ==
    { <<>>,
      << <<<<"e","l"," ","c","i","e","l","o">>, <<"a","z","u","l">>>> >>,
      << <<<<"e","l"," ","c","i","e","l","o">>, <<"a","z","u","l">>>>, <<<<"l","o","s"," ","g","a","t","o","s">>, <<"f","e","l","i","n","o","s">>>> >>,
      << <<<<"l","o","s"," ","g","a","t","o","s">>, <<"f","e","l","i","n","o","s">>>>, <<<<"e","l"," ","c","i","e","l","o">>, <<"a","z","u","l">>>> >> }

\* the saved memories
StoreMemorias ==
    { [nombre |-> n, nombre_usuario |-> u, datos_aprendidos |-> d] :
        n \in {<<>>, <<"L","u","n","a">>}, u \in {<<>>, <<"J","u","a","n">>}, d \in StoreDatos }

\* transcript entries of the saved transcripts
StoreTurns == {<<>>, <<"h","o","l","a">>, <<"b","i","e","n">>}

\* the saved transcripts
StoreHistories ==
    UNION {[1..n -> StoreTurns] : n \in 0..MaxTranscript}

\* self._guardar_memoria() on the agent of session sid
Guardar(sid) ==
    /\ store' = _guardar_memoria(store, backend, sid, instances[sid].memoria,
                                 instances[sid].conversation_history, TRUE)
    /\ last' = [NoObservation EXCEPT !.endpoint = "_guardar_memoria", !.sid = sid,
                                     !.saved = TRUE]
    /\ nreq' = nreq + 1
    /\ UNCHANGED <<instances, order, backend, platform, threads, faults>>

\* self.memoria, self.conversation_history = self._cargar_memoria() on the
\* agent of session sid
Cargar(sid) ==
    /\ instances' = [instances EXCEPT
                        ![sid] = _cargar_memoria(store, backend, sid, TRUE)]
    /\ last' = [NoObservation EXCEPT !.endpoint = "_cargar_memoria", !.sid = sid]
    /\ nreq' = nreq + 1
    /\ UNCHANGED <<order, store, backend, platform, threads, faults>>

InitStore ==
    /\ \E memoria \in StoreMemorias, history \in StoreHistories :
        instances = [s \in {"s1"} |-> Agent(memoria, history)]
    /\ order = <<"s1">>
    /\ store = <<>>
    /\ backend \in {"db", "file"}
    /\ platform = <<"l","i","n","u","x">>
    /\ threads = <<>>
    /\ last = NoObservation
    /\ faults = MaxFaults
    /\ nreq = 0

NextStore ==
    \/ nreq < MaxStoreCalls /\ Guardar("s1")
    \/ nreq < MaxStoreCalls /\ Cargar("s1")

SpecStore == InitStore /\ [][NextStore]_vars

----------------------------------------------------------------------------
(* The service over local files: no database is configured, and the file   *)
(* of session s1 is absent, was written by an earlier run of the service,  *)
(* or was put there holding a JSON array.  A file that is not JSON at all  *)
(* is the failing load of Outcomes.                                        *)

\* the local files the service finds when it starts
FoundFiles ==
    { <<>>,
      [s \in {"s1"} |-> Record("file", NamedMemoria, <<<<"h","o","l","a">>, <<"b","i","e","n">>>>)],
      [s \in {"s1"} |-> [content |-> JsonArr(<<>>)]] }

InitFiles ==
    /\ instances = <<>>
    /\ order = <<>>
    /\ store \in FoundFiles
    /\ backend = "file"
    /\ platform = <<"l","i","n","u","x">>
    /\ threads = <<>>
    /\ last = NoObservation
    /\ faults = 0
    /\ nreq = 0

\* the agent of sid cannot be constructed
Unloadable(sid) ==
    sid \notin DOMAIN instances /\ LoadRaises(store, backend, sid)

NextFiles ==
    \/ nreq < MaxRequests /\ \E raw \in RawTexts :
            IF Unloadable("s1") THEN load_error("interact", "s1", raw)
            ELSE interactuar("s1", raw)
    \/ nreq < MaxRequests /\ \E raw \in RawTexts :
            IF Unloadable("s1") THEN load_error("interact-stream", "s1", raw)
            ELSE interactuar_stream("s1", raw)
    \/ nreq < MaxRequests /\
            IF Unloadable("s1") THEN load_error("saludo", "s1", <<>>)
            ELSE saludo_inicial("s1")

SpecFiles == InitFiles /\ [][NextFiles]_vars

----------------------------------------------------------------------------
(* The execute-application handler: pensar_y_responder called with the     *)
(* texts of ExecuteTexts on hosts of several platforms.                    *)

\* values of sys.platform
Platforms == { <<"l","i","n","u","x">>, <<"d","a","r","w","i","n">>, <<"c","y","g","w","i","n">>, <<"w","i","n","3","2">> }

InitExecute ==
    /\ \E memoria \in {BlankMemoria, NamedMemoria} :
        /\ instances = [s \in {"s1"} |-> Agent(memoria, <<>>)]
        /\ store = IF memoria = BlankMemoria THEN <<>>
                   ELSE [s \in {"s1"} |-> Record("db", memoria, <<>>)]
    /\ order = <<"s1">>
    /\ backend = "db"
    /\ platform \in Platforms
    /\ threads = <<>>
    /\ last = NoObservation
    /\ faults = MaxFaults
    /\ nreq = 0

NextExecute ==
    nreq < MaxCalls /\ \E comando \in ExecuteTexts : Responder("s1", comando)

SpecExecute == InitExecute /\ [][NextExecute]_vars

----------------------------------------------------------------------------
(* Requests as they arrive: the X-Session-ID header may be absent or empty *)
(* and the JSON body may lack the 'comando' field.                          *)

\* values of the X-Session-ID header; "" is the absent or empty header
Headers == SessionIds \cup {""}

\* shapes of the JSON body: empty, an object without 'comando', an object
\* with 'comando'
Bodies == {"empty", "other", "comando"}

\* the request fails the checks made before the agent is looked up
Refused(endpoint, header, body) ==
    header = "" \/ (endpoint # "saludo" /\ body # "comando")

\* the endpoint looking up the agent of the session header before it
\* validates the body
reject_AfterLookup(endpoint, header) ==
    /\ last' = Observation(endpoint, header, <<>>, 400, NoResult, NoLlm, <<>>,
                           FALSE)
    /\ instances' = IF header = "" THEN instances
                    ELSE get_or_create_instance(instances, store, backend,
                                                header, TRUE)
    /\ order' = IF header = "" THEN order ELSE KeysAfter(order, header)
    /\ nreq' = nreq + 1
    /\ UNCHANGED <<store, backend, platform, threads, faults>>

\* the endpoint answering 400 with an error payload
reject(endpoint, header) ==
    /\ last' = Observation(endpoint, header, <<>>, 400, NoResult, NoLlm, <<>>,
                           FALSE)
    /\ nreq' = nreq + 1
    /\ UNCHANGED <<instances, order, store, backend, platform, threads, faults>>

NextRequests ==
    \/ nreq < MaxRequests /\ \E header \in Headers, body \in Bodies, raw \in RawTexts :
            IF Refused("interact", header, body) THEN reject("interact", header)
            ELSE interactuar(header, raw)
    \/ nreq < MaxRequests /\ \E header \in Headers, body \in Bodies, raw \in RawTexts :
            IF Refused("interact-stream", header, body)
            THEN reject("interact-stream", header)
            ELSE interactuar_stream(header, raw)
    \/ nreq < MaxRequests /\ \E header \in Headers :
            IF Refused("saludo", header, "empty") THEN reject("saludo", header)
            ELSE saludo_inicial(header)

SpecRequests == Init /\ [][NextRequests]_vars

----------------------------------------------------------------------------
(* The prompt: interactions on a session whose transcript already holds up *)
(* to MaxTurns turns, each the user text "hola" and the reply "bien".      *)

\* request texts that reach the LLM bridge: directly, and from the recall
\* handler
PromptTexts == { <<"h","o","l","a">>, <<"q","u","é"," ","s","a","b","e","s"," ","s","o","b","r","e"," ","e","l"," ","c","i","e","l","o">> }

RECURSIVE Turns(_)
\* the transcript after n turns
Turns(n) == IF n = 0 THEN <<>> ELSE Turns(n - 1) \o <<<<"h","o","l","a">>, <<"b","i","e","n">>>>

InitPrompt ==
    /\ backend \in {"db", "file"}
    /\ \E n \in 0..MaxTurns :
        /\ instances = [s \in {"s1"} |-> Agent(NamedMemoria, Turns(n))]
        /\ store = [s \in {"s1"} |-> Record(backend, NamedMemoria, Turns(n))]
    /\ order = <<"s1">>
    /\ platform = <<"l","i","n","u","x">>
    /\ threads = <<>>
    /\ last = NoObservation
    /\ faults = MaxFaults
    /\ nreq = 0

NextPrompt ==
    \/ nreq < MaxRequests /\ \E raw \in PromptTexts : interactuar("s1", raw)
    \/ nreq < MaxRequests /\ \E raw \in PromptTexts : interactuar_stream("s1", raw)

SpecPrompt == InitPrompt /\ [][NextPrompt]_vars

----------------------------------------------------------------------------
(* Requests served concurrently: app.run serves every request in a thread  *)
(* of its own and no statement of the code takes a lock.  Two POST         *)
(* /interact requests for session s1 advance statement by statement; the   *)
(* calls a statement makes are part of its step.                           *)

\* the threads serving the two requests
Threads == {1, 2}

\* request texts of the concurrent requests
ConcurrentTexts ==
    { <<"m","i"," ","n","o","m","b","r","e"," ","e","s"," ","J","u","a","n">>, <<"r","e","c","u","e","r","d","a"," ","q","u","e"," ","e","l"," ","c","i","e","l","o"," ","e","s"," ","a","z","u","l">>, <<"h","o","l","a">> }

\* a thread that has not received its request.  agent is the reference the
\* thread holds: "registry" for the object _instances[session_id] refers to,
\* "own" for an object only the thread refers to, kept in obj; built is set
\* when the thread has run Nexus(session_id); dump is what json.dumps read
IdleThread ==
    [pc |-> "idle", comando |-> <<>>, agent |-> "none", obj |-> BlankAgent,
     built |-> FALSE, r |-> NoResult, llm |-> NoLlm, dump |-> BlankAgent]

\* nexus_instance of thread t
Held(t, sid) ==
    IF threads[t].agent = "registry" THEN instances[sid] ELSE threads[t].obj

\* an assignment to the fields of nexus_instance by thread t, which goes on
\* as thread
SetHeld(t, sid, agent, thread) ==
    IF threads[t].agent = "registry"
    THEN /\ instances' = [instances EXCEPT ![sid] = agent]
         /\ threads' = [threads EXCEPT ![t] = thread]
    ELSE /\ instances' = instances
         /\ threads' = [threads EXCEPT ![t] = [thread EXCEPT !.obj = agent]]

\* the request passes its checks and get_or_create_instance tests
\* session_id not in self._instances
receive(t, sid, raw) ==
    /\ threads[t].pc = "idle"
    /\ threads' = [threads EXCEPT
                      ![t].pc = IF sid \in DOMAIN instances THEN "lookup"
                                ELSE "construct",
                      ![t].comando = Lower(raw)]
    /\ UNCHANGED <<instances, order, store, backend, platform, last, faults, nreq>>

\* Nexus(session_id=session_id): __init__ loads the record of the session
construct(t, sid) ==
    /\ threads[t].pc = "construct"
    /\ threads' = [threads EXCEPT
                      ![t].pc = "assign",
                      ![t].obj = _cargar_memoria(store, backend, sid, TRUE),
                      ![t].built = TRUE]
    /\ UNCHANGED <<instances, order, store, backend, platform, last, faults, nreq>>

\* self._instances[session_id] = the agent just constructed; a thread that
\* was returned the agent this one replaces keeps it, now as its own
assign(t, sid) ==
    /\ threads[t].pc = "assign"
    /\ instances' = [s \in DOMAIN instances \cup {sid} |->
                        IF s = sid THEN threads[t].obj ELSE instances[s]]
    /\ order' = KeysAfter(order, sid)
    /\ threads' = [u \in Threads |->
                      IF u = t THEN [threads[u] EXCEPT !.pc = "lookup"]
                      ELSE IF threads[u].agent = "registry"
                      THEN [threads[u] EXCEPT !.agent = "own",
                                              !.obj = instances[sid]]
                      ELSE threads[u]]
    /\ UNCHANGED <<store, backend, platform, last, faults, nreq>>

\* return self._instances[session_id]
lookup(t, sid) ==
    /\ threads[t].pc = "lookup"
    /\ threads' = [threads EXCEPT ![t].pc = "append_comando",
                                  ![t].agent = "registry"]
    /\ UNCHANGED <<instances, order, store, backend, platform, last, faults, nreq>>

\* nexus_instance.conversation_history.append(comando)
append_comando(t, sid) ==
    /\ threads[t].pc = "append_comando"
    /\ SetHeld(t, sid,
               [Held(t, sid) EXCEPT !.conversation_history =
                    Append(Held(t, sid).conversation_history, threads[t].comando)],
               [threads[t] EXCEPT !.pc = "respond"])
    /\ UNCHANGED <<order, store, backend, platform, last, faults, nreq>>

\* respuesta = nexus_instance.pensar_y_responder(comando)
respond(t, sid) ==
    /\ threads[t].pc = "respond"
    /\ LET memoria == Held(t, sid).memoria
           history == Held(t, sid).conversation_history
           comando == threads[t].comando
       IN  \E r0 \in {pensar_y_responder(memoria, history, comando, NoLlm, platform)} :
           \E llm \in IF r0.prompts = <<>> THEN {NoLlm} ELSE LlmOutcomes :
           \E r \in {IF llm = NoLlm THEN r0
                     ELSE pensar_y_responder(memoria, history, comando, llm,
                                             platform)} :
               /\ SetHeld(t, sid, Agent(r.memoria, history),
                          [threads[t] EXCEPT !.pc = "append_reply", !.r = r,
                                             !.llm = llm])
               /\ store' = IF r.saved
                           THEN _guardar_memoria(store, backend, sid, r.memoria,
                                                 history, TRUE)
                           ELSE store
    /\ UNCHANGED <<order, backend, platform, last, faults, nreq>>

\* if respuesta.get("speech"): conversation_history.append(...)
append_reply(t, sid) ==
    /\ threads[t].pc = "append_reply"
    /\ SetHeld(t, sid,
               [Held(t, sid) EXCEPT !.conversation_history =
                    AppendSpeech(Held(t, sid).conversation_history,
                                 threads[t].r.speech)],
               [threads[t] EXCEPT !.pc = "dumps"])
    /\ UNCHANGED <<order, store, backend, platform, last, faults, nreq>>

\* _guardar_memoria serializes self.memoria and self.conversation_history
dumps(t, sid) ==
    /\ threads[t].pc = "dumps"
    /\ threads' = [threads EXCEPT ![t].pc = "commit", ![t].dump = Held(t, sid)]
    /\ UNCHANGED <<instances, order, store, backend, platform, last, faults, nreq>>

\* _guardar_memoria serializing the agent when the save completes
commit_Reserialized(t, sid) ==
    /\ threads[t].pc = "commit"
    /\ store' = _guardar_memoria(store, backend, sid, Held(t, sid).memoria,
                                 Held(t, sid).conversation_history, TRUE)
    /\ last' = Observation("interact", sid, threads[t].comando, 200,
                           threads[t].r, threads[t].llm,
                           <<Event("response", threads[t].r.speech,
                                   threads[t].r.action)>>, TRUE)
    /\ nreq' = nreq + 1
    /\ threads' = [threads EXCEPT ![t].pc = "done"]
    /\ UNCHANGED <<instances, order, backend, platform, faults>>

\* _guardar_memoria completes (db.commit(), or the file is closed) and the
\* endpoint returns the reply
commit(t, sid) ==
    /\ threads[t].pc = "commit"
    /\ store' = _guardar_memoria(store, backend, sid, threads[t].dump.memoria,
                                 threads[t].dump.conversation_history, TRUE)
    /\ last' = Observation("interact", sid, threads[t].comando, 200,
                           threads[t].r, threads[t].llm,
                           <<Event("response", threads[t].r.speech,
                                   threads[t].r.action)>>, TRUE)
    /\ nreq' = nreq + 1
    /\ threads' = [threads EXCEPT ![t].pc = "done"]
    /\ UNCHANGED <<instances, order, backend, platform, faults>>

\* the next statement of thread t
Step(t, sid) ==
    \/ \E raw \in ConcurrentTexts : receive(t, sid, raw)
    \/ construct(t, sid)
    \/ assign(t, sid)
    \/ lookup(t, sid)
    \/ append_comando(t, sid)
    \/ respond(t, sid)
    \/ append_reply(t, sid)
    \/ dumps(t, sid)
    \/ commit(t, sid)

\* the record an earlier run of the service left for session s1
EarlierRecord(bk) == [s \in {"s1"} |-> Record(bk, NamedMemoria, <<>>)]

\* the session is new to the registry, or its agent is registered; its
\* record is absent, or was left by an earlier run
InitConcurrent ==
    /\ backend \in {"db", "file"}
    /\ store \in {<<>>, EarlierRecord(backend)}
    /\ \E registered \in BOOLEAN :
        /\ instances = IF registered
                       THEN [s \in {"s1"} |->
                                _cargar_memoria(store, backend, "s1", TRUE)]
                       ELSE <<>>
        /\ order = IF registered THEN <<"s1">> ELSE <<>>
    /\ platform = <<"l","i","n","u","x">>
    /\ last = NoObservation
    /\ faults = MaxFaults
    /\ nreq = 0
    /\ threads = [t \in Threads |-> IdleThread]

NextConcurrent == \E t \in Threads : Step(t, "s1")

SpecConcurrent == InitConcurrent /\ [][NextConcurrent]_vars

----------------------------------------------------------------------------
(* Properties of the respond entry point, checked under SpecRespond.       *)

\* the agent of session s1 before the call
Before == instances["s1"]

\* the assistant of session s1 has a name before the call
Named == Before.memoria.nombre # <<>>

\* the reply of _handle_set_ia_name for the name it stored
NameSettingReply(nombre) ==
    <<"¡","E","n","t","e","n","d","i","d","o","!"," ","A"," ","p","a","r","t","i","r"," ","d","e"," ","a","h","o","r","a"," ","m","i"," ","n","o","m","b","r","e"," ","e","s"," ">> \o nombre
        \o <<"."," ","¿","E","n"," ","q","u","é"," ","p","u","e","d","o"," ","a","y","u","d","a","r","t","e","?">>

\* a call on an unnamed agent ran the name-setting handler on comando
NamedBy(comando) ==
    /\ last'.target = "_handle_set_ia_name"
    /\ last'.speech = NameSettingReply(Capitalize(Strip(comando)))
    /\ instances'["s1"].memoria.nombre = Capitalize(Strip(comando))
    /\ last'.prompts = <<>>

\* C1 as stated: on an agent with an empty assistant name every call of
\* pensar_y_responder, whatever its text (empty text included), returns the
\* name-setting reply and stores the capitalized, trimmed text as the name.
C1_EveryTextNames ==
    [][~Named => NamedBy(last'.comando)]_vars

\* C1 amended: on an agent with an empty assistant name every call of
\* pensar_y_responder with a non-empty text (whitespace-only text and text
\* with command keywords included) returns the name-setting reply and stores
\* the capitalized, trimmed text as the name; a call with the empty text
\* returns the empty reply with action none and leaves the memory as it was.
C1_NonEmptyTextNames ==
    [][~Named =>
         IF last'.comando # <<>> THEN NamedBy(last'.comando)
         ELSE /\ last'.speech = <<>>
              /\ last'.action = ActionNone
              /\ instances' = instances]_vars

\* a text holding the keyword of a table entry became the assistant's name
C1_Witness ==
    /\ last.target = "_handle_set_ia_name"
    /\ last.comando = <<"r","e","c","u","e","r","d","a"," ","q","u","e"," ","e","l"," ","c","i","e","l","o"," ","e","s"," ","a","z","u","l">>
    /\ instances["s1"].memoria.nombre = <<"R","e","c","u","e","r","d","a"," ","q","u","e"," ","e","l"," ","c","i","e","l","o"," ","e","s"," ","a","z","u","l">>
    /\ instances["s1"].memoria.datos_aprendidos = <<>>

\* the targets of pensar_y_responder in priority order: the table entries,
\* then the execute-application handler, then the LLM bridge
Targets ==
    [i \in 1..Len(command_dispatcher) |-> command_dispatcher[i].handler]
        \o <<"_handle_execute_app", "pensar_con_gemini">>

\* the target of rank k is triggered by comando
Triggered(k, comando) ==
    IF k <= Len(command_dispatcher)
    THEN \E j \in 1..Len(command_dispatcher[k].keywords) :
            Contains(comando, command_dispatcher[k].keywords[j])
    ELSE IF k = Len(command_dispatcher) + 1 THEN Contains(comando, <<"e","j","e","c","u","t","a">>)
    ELSE TRUE

\* the call ran the first triggered target and no other; the LLM bridge,
\* when it is the target, was given the whole text
FirstMatchRan(comando) ==
    \E k \in 1..Len(Targets) :
        /\ Triggered(k, comando)
        /\ \A j \in 1..(k - 1) : ~Triggered(j, comando)
        /\ last'.target = Targets[k]
        /\ IF k = Len(Targets)
           THEN /\ Len(last'.prompts) = 1
                /\ last'.prompts[1].pregunta = comando
           ELSE /\ \A p \in 1..Len(last'.prompts) :
                        Targets[k] = "_handle_recall_fact"
                /\ (last'.spawned # <<>> => Targets[k] = "_handle_execute_app")

\* C3 as stated: once the assistant is named, for every input text
\* pensar_y_responder runs exactly one target, the first in priority order
\* (table entries in definition order, then execute-application, then the
\* LLM bridge with the full text) whose keyword the text contains.
C3_EveryTextRunsFirstMatch ==
    [][Named => FirstMatchRan(last'.comando)]_vars

\* C3 amended: once the assistant is named, for every non-empty input text
\* pensar_y_responder runs exactly one target, the first in priority order
\* whose keyword the text contains; for the empty text it runs no target and
\* returns the empty reply.
C3_NonEmptyTextRunsFirstMatch ==
    [][Named =>
         IF last'.comando # <<>> THEN FirstMatchRan(last'.comando)
         ELSE /\ last'.target = "empty"
              /\ last'.speech = <<>>
              /\ last'.prompts = <<>>
              /\ instances' = instances]_vars

\* a text with the execute keyword and the keyword of a table entry ran the
\* table entry
C3_Witness ==
    /\ last.endpoint = "pensar_y_responder"
    /\ last.comando = <<"e","j","e","c","u","t","a"," ","b","u","s","c","a"," ","e","n"," ","g","o","o","g","l","e"," ","g","a","t","o","s">>
    /\ last.target = "_handle_google_search"
    /\ last.spawned = <<>>
    /\ instances["s1"].memoria.nombre # <<>>

\* the recall queries for the key K
RecallQueries(K) ==
    {KwQueSabesSobre \o <<" ">> \o K, KwRecuerdame \o <<" ">> \o K}

\* the call answered with the value V from memory, the LLM bridge not used
RecalledFromMemory(V) ==
    /\ last'.target = "_handle_recall_fact"
    /\ Contains(last'.speech, V)
    /\ last'.prompts = <<>>

\* the key holds a keyword of a table entry ranked at or above recall
HoldsKeyword(K) == \E k \in 1..4 : Triggered(k, K)

\* C4 as stated: in a named session, for every fact K -> V a remember
\* command stored, a recall query for K replies with V and does not use the
\* LLM bridge.
C4_RecallReturnsStored ==
    [][\A i \in 1..Len(Before.memoria.datos_aprendidos) :
         LET K == Before.memoria.datos_aprendidos[i][1]
             V == Before.memoria.datos_aprendidos[i][2]
         IN  Named /\ last'.comando \in RecallQueries(K)
                => RecalledFromMemory(V)]_vars

\* C4 amended: in a named session, for every fact K -> V a remember command
\* stored whose key K holds no keyword of the set-user-name, get-user-name,
\* remember or recall entries, a recall query for K replies with V and does
\* not use the LLM bridge.
C4_RecallReturnsStoredPlainKey ==
    [][\A i \in 1..Len(Before.memoria.datos_aprendidos) :
         LET K == Before.memoria.datos_aprendidos[i][1]
             V == Before.memoria.datos_aprendidos[i][2]
         IN  Named /\ ~HoldsKeyword(K) /\ last'.comando \in RecallQueries(K)
                => RecalledFromMemory(V)]_vars

\* the fact el cielo -> azul, stored by a remember command, was recalled
C4_Witness ==
    /\ last.target = "_handle_recall_fact"
    /\ last.comando = <<"q","u","é"," ","s","a","b","e","s"," ","s","o","b","r","e"," ","e","l"," ","c","i","e","l","o">>
    /\ last.speech = <<"R","e","c","u","e","r","d","o"," ","q","u","e"," ","e","l"," ","c","i","e","l","o"," ","e","s"," ","a","z","u","l",".">>
    /\ last.prompts = <<>>
    /\ instances["s1"].memoria.datos_aprendidos = << <<<<"e","l"," ","c","i","e","l","o">>, <<"a","z","u","l">>>> >>

\* the text of comando after the first occurrence of the remember trigger
AfterTrigger(comando) ==
    Tail_(comando, Find(comando, KwRecuerdaQue) + Len(KwRecuerdaQue))

\* the text of comando with the first occurrence of the trigger taken out
WithoutTrigger(comando) ==
    LET i == Find(comando, KwRecuerdaQue)
    IN  SubSeq(comando, 1, i - 1) \o Tail_(comando, i + Len(KwRecuerdaQue))

\* the text holds no connector phrase
NoConnector(text) == ~Contains(text, <<" ","e","s"," ">>) /\ ~Contains(text, <<" ","s","o","n"," ">>)

\* the command texts that, the first occurrence of the trigger taken out and
\* the rest trimmed, hold no connector phrase
ConnectorlessTexts ==
    {c \in RespondTexts :
        Contains(c, KwRecuerdaQue) /\ NoConnector(Strip(WithoutTrigger(c)))}

\* the call left the memory as it was and replied with the format hint
Hinted ==
    /\ instances' = instances
    /\ store' = store
    /\ last'.speech = FormatHint
    /\ last'.action = [type |-> "none", url |-> <<>>]

\* C5 as stated: a remember command whose text after the trigger phrase
\* holds no connector phrase leaves the memory unchanged and returns the
\* format hint with action none.
C5_NoConnectorAfterTrigger ==
    [][last'.target = "_handle_remember_fact"
         /\ NoConnector(AfterTrigger(last'.comando)) => Hinted]_vars

\* C5 amended: a remember command whose text, the first occurrence of the
\* trigger phrase taken out and the rest trimmed (text before the trigger
\* included), holds no connector phrase leaves the memory unchanged and
\* returns the format hint with action none.
C5_NoConnectorWithoutTrigger ==
    [][last'.target = "_handle_remember_fact"
         /\ last'.comando \in ConnectorlessTexts => Hinted]_vars

\* a remember command without connector was answered with the format hint
C5_Witness ==
    /\ last.target = "_handle_remember_fact"
    /\ last.comando = <<"r","e","c","u","e","r","d","a"," ","q","u","e"," ","e","l"," ","c","i","e","l","o">>
    /\ last.speech = FormatHint
    /\ instances["s1"].memoria.datos_aprendidos = <<>>
    /\ instances["s1"].memoria.nombre # <<>>

----------------------------------------------------------------------------
(* Properties of the service, checked under Spec, SpecFaults, SpecRegistry *)
(* and SpecStore.                                                          *)

\* the last request was an interaction on a session
Interacted == last.endpoint \in {"interact", "interact-stream"}

\* C2: in a session started from blank memory every utterance that arrives,
\* by POST /interact or by POST /interact-stream, while the assistant has no
\* name is taken as the name and runs no other handler; so an agent with an
\* empty assistant name has an empty user name and no learned facts.
C2_UnnamedHasLearnedNothing ==
    \A sid \in DOMAIN instances :
        instances[sid].memoria.nombre = <<>> =>
            /\ instances[sid].memoria.nombre_usuario = <<>>
            /\ instances[sid].memoria.datos_aprendidos = <<>>
            /\ (Interacted /\ last.sid = sid /\ last.comando # <<>> =>
                    last.target = "_handle_set_ia_name")

\* C6: the registry holds at most Capacity agents; once Capacity + 1 session
\* ids were asked for, none of them twice, the first is gone from the key
\* listing and the others remain.
C6_RegistryBounded ==
    /\ Cardinality(DOMAIN instances) <= Capacity
    /\ Len(order) <= Capacity
    /\ (last.endpoint = "admin/sessions" => Len(last.sessions) <= Capacity)

\* the transcript ends with the user text of the last request and, when the
\* reply is not empty, the reply after it
EndsWithTurn(history) ==
    LET n == Len(history)
    IN  IF last.speech = <<>>
        THEN n >= 1 /\ history[n] = last.comando
        ELSE n >= 2 /\ history[n - 1] = last.comando /\ history[n] = last.speech

\* C7: after every interaction (POST /interact or POST /interact-stream)
\* whose final save did not fail, the persisted record of the session holds
\* exactly the agent's memory and transcript, the user text and the reply
\* of the interaction included, whatever was persisted before.
C7_SavedEqualsInMemory ==
    Interacted /\ last.saved =>
        /\ last.sid \in DOMAIN store
        /\ last.sid \in DOMAIN instances
        /\ _cargar_memoria(store, backend, last.sid, TRUE) = instances[last.sid]
        /\ store[last.sid] = Record(backend, instances[last.sid].memoria,
                                    instances[last.sid].conversation_history)
        /\ EndsWithTurn(instances[last.sid].conversation_history)

\* the save of the second interaction succeeded after a save of the session
\* had failed, and the persisted transcript holds both turns
C7_Witness ==
    /\ Interacted /\ last.saved
    /\ faults = 1
    /\ last.speech # <<>>
    /\ Len(LoadsHistory(IF backend = "db" THEN store["s1"].history_json
                        ELSE JsonGet(store["s1"].content, "historial",
                                     JsonArr(<<>>)))) = 4
    /\ instances["s1"].memoria.nombre # <<>>

\* C8: for every memory and transcript, saving the pair for a session id
\* and then loading that session id from the same backend yields an equal
\* memory and an equal transcript, the entries in the same order.
C8_RoundTrip ==
    [][last.endpoint = "_guardar_memoria" /\ last'.endpoint = "_cargar_memoria"
         => instances' = instances]_vars

\* a memory with two facts and a transcript of two different entries was
\* saved and loaded back
C8_Witness ==
    /\ last.endpoint = "_cargar_memoria"
    /\ nreq = 2
    /\ "s1" \in DOMAIN store
    /\ Len(instances["s1"].memoria.datos_aprendidos) = 2
    /\ instances["s1"].memoria.nombre_usuario # <<>>
    /\ instances["s1"].conversation_history = <<<<"h","o","l","a">>, <<"b","i","e","n">>>>

\* C9: after any sequence of completed interactions on a session the
\* transcript alternates user texts and replies: its length is even, and
\* after an interaction it ends with the user text and the reply to it.
C9_TranscriptAlternates ==
    \A sid \in DOMAIN instances :
        LET history == instances[sid].conversation_history
            n == Len(history)
        IN  /\ n % 2 = 0
            /\ (Interacted /\ last.sid = sid =>
                    /\ n >= 2
                    /\ history[n - 1] = last.comando
                    /\ history[n] = last.speech)

\* the speech_chunk fragments of the last response, in delivery order
Fragments ==
    LET chunks == SelectSeq(last.events, LAMBDA e : e.kind = "speech_chunk")
    IN  [i \in 1..Len(chunks) |-> chunks[i].speech]

\* the texts the provider sent in the last request, in arrival order, the
\* empty ones left out
Received == SelectSeq(last.llm.chunks, LAMBDA c : c # <<>>)

\* the last request was a streamed interaction answered by the LLM bridge
Streamed ==
    last.endpoint = "interact-stream" /\ last.target = "pensar_con_gemini_stream"

\* C10: for every non-command input to POST /interact-stream the
\* concatenation of the speech_chunk fragments, in delivery order, is the
\* transcript entry appended for the turn (no entry when it is empty), and
\* the fragments are the provider's texts in the order received, followed by
\* the fallback text when the provider failed.
C10_FragmentsMakeEntry ==
    Streamed =>
        LET history == instances[last.sid].conversation_history
            n == Len(history)
            whole == Concat(Fragments)
        IN  /\ Fragments = Received \o (IF last.llm.ok THEN <<>>
                                        ELSE <<GeminiFallback>>)
            /\ \A i \in 1..Len(last.events) :
                    last.events[i].kind = "done" <=> i = Len(last.events)
            /\ IF whole = <<>>
               THEN n >= 1 /\ history[n] = last.comando
               ELSE n >= 2 /\ history[n - 1] = last.comando /\ history[n] = whole

\* a reply streamed in two fragments was appended to the transcript whole
C10_Witness ==
    /\ Streamed
    /\ Fragments = <<<<"b","i">>, <<"e","n">>>>
    /\ last.comando = <<"h","o","l","a">>
    /\ instances[last.sid].conversation_history = <<<<"h","o","l","a">>, <<"b","i","e","n">>>>

\* C11: no failure of the backend is fatal: whatever the load or the save
\* met (a store that fails, a local file that is malformed or holds the
\* wrong shape), the request completes with its normal reply and the session
\* has a usable agent, blank when the load failed, whose transcript holds
\* the turn of an interaction.
C11_FailuresNonFatal ==
    last.endpoint # "none" =>
        /\ last.status = 200
        /\ last.sid \in DOMAIN instances
        /\ last.events # <<>>
        /\ (Interacted => EndsWithTurn(instances[last.sid].conversation_history))

\* the agent of sid, when the step creates it, holds what is persisted for
\* sid, or the blank state when nothing is
CreatedFromStore(sid) ==
    sid \notin DOMAIN instances =>
        IF sid \in DOMAIN store
        THEN store[sid] = Record(backend, instances'[sid].memoria,
                                 instances'[sid].conversation_history)
        ELSE instances'[sid] = BlankAgent

\* C12: GET /saludo called twice in a row for a session, no interaction in
\* between, returns the same string both times, and a greeting never changes
\* the memory or the transcript of a session nor the persisted records.
C12_GreetingIdempotent ==
    [][last'.endpoint = "saludo" =>
         /\ store' = store
         /\ \A sid \in DOMAIN instances : instances'[sid] = instances[sid]
         /\ CreatedFromStore(last'.sid)
         /\ (last.endpoint = "saludo" /\ last.sid = last'.sid =>
                last'.speech = last.speech)]_vars

\* session s1 was greeted twice in a row, nothing else requested
C12_Witness ==
    /\ last.endpoint = "saludo"
    /\ last.sid = "s1"
    /\ nreq = 2
    /\ DOMAIN instances = {"s1"}
    /\ instances["s1"] = BlankAgent
    /\ store = <<>>

\* C13: once the assistant of a session has a name, no request through any
\* endpoint empties or changes the name, and the set-assistant-name handler
\* never runs again for the session.
C13_NamedStaysNamed ==
    [][\A sid \in DOMAIN instances :
         instances[sid].memoria.nombre # <<>> =>
            /\ instances'[sid].memoria.nombre = instances[sid].memoria.nombre
            /\ (last'.sid = sid => last'.target # "_handle_set_ia_name")]_vars

\* the assistant named Luna was sent its own name again, and the text went
\* to the LLM bridge
C13_Witness ==
    /\ last.endpoint = "interact"
    /\ last.comando = <<"l","u","n","a">>
    /\ last.target = "pensar_con_gemini"
    /\ instances[last.sid].memoria.nombre = <<"L","u","n","a">>
    /\ Len(instances[last.sid].conversation_history) >= 3

\* nothing is persisted for sid and its agent, if it has one, is blank
OnBlank(sid) ==
    /\ sid \notin DOMAIN store
    /\ (sid \in DOMAIN instances => instances[sid] = BlankAgent)

\* C14 as stated: starting from blank memory, after the first utterance
\* handled by POST /interact the assistant name is not empty, whatever the
\* text of the utterance.
C14_FirstUtteranceNames ==
    [][last'.endpoint = "interact" /\ OnBlank(last'.sid) =>
         instances'[last'.sid].memoria.nombre # <<>>]_vars

\* C14 amended: starting from blank memory, after the first utterance
\* handled by POST /interact the assistant name is not empty, whatever the
\* text of the utterance, provided it holds a character that is not
\* whitespace; after an empty or whitespace-only first utterance the
\* assistant name is still empty.
C14_FirstVisibleUtteranceNames ==
    [][last'.endpoint = "interact" /\ OnBlank(last'.sid) =>
         (instances'[last'.sid].memoria.nombre # <<>>
            <=> \E i \in 1..Len(last'.comando) :
                    last'.comando[i] \notin {" ", "\t", "\n"})]_vars

\* a first utterance holding the keyword of a table entry named the assistant
C14_Witness ==
    /\ last.endpoint = "interact"
    /\ last.comando = <<"m","i"," ","n","o","m","b","r","e"," ","e","s"," ","j","u","a","n">>
    /\ instances[last.sid].memoria.nombre = <<"M","i"," ","n","o","m","b","r","e"," ","e","s"," ","j","u","a","n">>
    /\ Len(instances[last.sid].conversation_history) = 2

\* the kinds of the events of the last response, in delivery order
Kinds == [i \in 1..Len(last.events) |-> last.events[i].kind]

\* the last request was a streamed interaction answered by a handler
Handled ==
    last.endpoint = "interact-stream" /\ last.target # "pensar_con_gemini_stream"

\* C15 as stated: POST /interact-stream emits for command-matched input
\* exactly one {speech, action} event and nothing after it, and for
\* LLM-routed input speech_chunk events followed by exactly one final done
\* event.
C15_OneTerminalEvent ==
    /\ Handled => Kinds = <<"response">>
    /\ Streamed =>
            /\ Kinds # <<>>
            /\ \A i \in 1..Len(Kinds) :
                    Kinds[i] = IF i = Len(Kinds) THEN "done" ELSE "speech_chunk"

\* C15 amended: POST /interact-stream emits for command-matched input
\* exactly one {speech, action} event followed by exactly one final done
\* event, and for LLM-routed input speech_chunk events followed by exactly
\* one final done event; no event follows the done event.
C15_DoneEndsBothShapes ==
    /\ Handled =>
            /\ Kinds = <<"response", "done">>
            /\ last.events[1].speech = last.speech
            /\ last.events[1].action = last.action
    /\ Streamed =>
            /\ Kinds # <<>>
            /\ \A i \in 1..Len(Kinds) :
                    Kinds[i] = IF i = Len(Kinds) THEN "done" ELSE "speech_chunk"

\* a streamed remember command was answered with one reply event and done
C15_Witness ==
    /\ Handled
    /\ last.target = "_handle_remember_fact"
    /\ Len(last.events) = 2
    /\ last.events[2].kind = "done"

\* the fixed reply of the LLM bridge when the provider fails
Apology ==
    <<"L","o"," ","s","i","e","n","t","o",","," ","p","a","r","e","c","e"," ","q","u","e"," ","t","e","n","g","o"," ","p","r","o","b","l","e","m","a","s"," ","p","a","r","a"," ","c","o","n","t","a","c","t","a","r"," ","a"," ","G","o","o","g","l","e"," ","G","e","m","i","n","i"," ","e","n"," ","e","s","t","e"," ","m","o","m","e","n","t","o",".">>

\* the transcript of the session of the last request ends with entry
Recorded(entry) ==
    LET history == instances[last.sid].conversation_history
    IN  Len(history) >= 2 /\ history[Len(history)] = entry
            /\ history[Len(history) - 1] = last.comando

\* C17: a failure of the provider stays inside the LLM bridge: the failing
\* complete call gives the fixed apology, the stream that fails after k
\* fragments gives those k fragments in arrival order and then the apology
\* as the last fragment, and the turn completes with the apology in the
\* transcript.
C17_ProviderFailureContained ==
    last.prompts # <<>> /\ ~last.llm.ok =>
        /\ last.status = 200
        /\ last.target = "pensar_con_gemini" =>
                last.speech = Apology /\ Recorded(Apology)
        /\ last.target = "_handle_recall_fact" =>
                /\ Len(last.speech) > Len(Apology)
                /\ Tail_(last.speech, Len(last.speech) - Len(Apology) + 1) = Apology
                /\ Recorded(last.speech)
        /\ Streamed =>
                /\ Fragments = Received \o <<Apology>>
                /\ Kinds[Len(Kinds)] = "done"
                /\ Recorded(Concat(Received) \o Apology)

\* a stream that failed after two fragments delivered both and the apology
C17_Witness ==
    /\ Streamed
    /\ ~last.llm.ok
    /\ Fragments = <<<<"b","i">>, <<"e","n">>, Apology>>
    /\ Len(instances[last.sid].conversation_history) = 2

\* a target of either endpoint, the two entries of the LLM bridge taken as one
Bridge(target) ==
    IF target = "pensar_con_gemini_stream" THEN "pensar_con_gemini" ELSE target

\* C20: POST /interact-stream applies the dispatch priority of POST
\* /interact: in every state of a session and for every text both endpoints
\* choose the same target, the execute-application keyword counting only
\* when no table entry matches.
C20_SameTarget ==
    \A sid \in DOMAIN instances : \A raw \in RawTexts :
        LET comando == Lower(raw)
            memoria == instances[sid].memoria
            hist1 == Append(instances[sid].conversation_history, comando)
        IN  Bridge(pensar_y_responder(memoria, hist1, comando, NoLlm,
                                      platform).target)
              = Bridge(StreamResult(memoria, hist1, comando, NoLlm,
                                    platform).target)

\* the host is one on which applications may be started
Permitted == Len(platform) >= 3 /\ SubSeq(platform, 1, 3) = <<"w","i","n">>

\* C16: on a host whose platform is not the permitted one the
\* execute-application handler replies with the refusal, action none, and
\* starts no process, whatever the application named, mapped or not.
C16_RefusedOffWindows ==
    last.target = "_handle_execute_app" /\ ~Permitted =>
        /\ last.spawned = <<>>
        /\ last.action = [type |-> "none", url |-> <<>>]
        /\ StartsWith(last.speech,
                      <<"L","o"," ","s","i","e","n","t","o",","," ","l","a"," ","f","u","n","c","i","ó","n"," ","d","e"," ","e","j","e","c","u","t","a","r"," ","a","p","l","i","c","a","c","i","o","n","e","s"," ","c","o","m","o"," ","'">>)
        /\ Contains(last.speech, <<"s","o","l","o"," ","e","s","t","á"," ","d","i","s","p","o","n","i","b","l","e"," ","c","u","a","n","d","o"," ","o","p","e","r","o"," ","e","n"," ","u","n"," ","s","i","s","t","e","m","a"," ","W","i","n","d","o","w","s",".">>)

\* a mapped application was asked for on darwin and refused
C16_Witness ==
    /\ last.target = "_handle_execute_app"
    /\ platform = <<"d","a","r","w","i","n">>
    /\ last.comando = <<"e","j","e","c","u","t","a"," ","c","a","l","c","u","l","a","d","o","r","a">>
    /\ last.spawned = <<>>
    /\ Contains(last.speech, <<"'","c","a","l","c","u","l","a","d","o","r","a","'">>)

\* C18: a request rejected for a missing session header or a missing
\* command field is answered 400 and has no effect: no agent is created or
\* loaded, and the registry, the memory and transcript of every session and
\* the persisted records are as before.
C18_RejectedHasNoEffect ==
    [][/\ last'.sid = "" => last'.status = 400
       /\ last'.status = 400 =>
            /\ instances' = instances
            /\ order' = order
            /\ store' = store
            /\ last'.speech = <<>>
            /\ last'.events = <<>>]_vars

\* two requests with the header of session s1 and no command field were
\* rejected, and s1 has no agent
C18_Witness ==
    /\ last.status = 400
    /\ last.endpoint = "interact"
    /\ last.sid = "s1"
    /\ nreq = 2
    /\ instances = <<>>
    /\ order = <<>>
    /\ store = <<>>

\* C19: the prompt built during an interaction renders the last 6 entries
\* of the transcript, the text of the interaction included, every entry the
\* user wrote labelled as the user's and every reply as the assistant's,
\* whatever the length of the transcript.
C19_PromptLabelsSpeakers ==
    \A p \in 1..Len(last.prompts) :
        LET historial == last.prompts[p].historial
        IN  /\ Len(historial) <= 6
            /\ historial # <<>>
            /\ historial[Len(historial)].turno = last.comando
            /\ \A i \in 1..Len(historial) :
                    historial[i].label =
                        IF historial[i].turno \in PromptTexts
                        THEN <<"U","s","u","a","r","i","o">> ELSE <<"I","A">>

\* the farewell _handle_exit is specified to give for a user name
Farewell(nombre_usuario) ==
    IF nombre_usuario = <<>> THEN <<"¡","H","a","s","t","a"," ","p","r","o","n","t","o","!">>
    ELSE <<"¡","H","a","s","t","a"," ","p","r","o","n","t","o",","," ">> \o nombre_usuario \o <<"!">>

\* C21: the exit handler returns action exit and a farewell that carries
\* the user name if and only if a user name is known; with an empty user
\* name, as in a blank memory, the farewell is the generic one; the handler
\* changes neither the memory nor the persisted record.
C21_FarewellNamesKnownUser ==
    [][last'.target = "_handle_exit" /\ nreq' = nreq + 1 =>
            /\ last'.action = ActionExit
            /\ last'.speech = Farewell(instances[last'.sid].memoria.nombre_usuario)
            /\ instances'[last'.sid].memoria = instances[last'.sid].memoria
            /\ store' = store]_vars

\* the agent the persisted record of sid decodes to
Persisted(sid) == _cargar_memoria(store, backend, sid, TRUE)

\* text is an entry of the transcript history
InTranscript(history, text) == \E i \in 1..Len(history) : history[i] = text

\* both requests were answered
BothDone == \A t \in Threads : threads[t].pc = "done"

C23_OneAgentPerSession ==
    /\ Cardinality({t \in Threads : threads[t].built}) <= 1
    /\ \A t \in Threads : threads[t].agent # "own"

\* the handlers that assign to self.memoria
MemoryWriters ==
    {"_handle_set_ia_name", "_handle_set_user_name", "_handle_remember_fact"}

\* C24: the memory of a session is changed only by the set-assistant-name,
\* set-user-name and remember-fact handlers: a call of pensar_y_responder
\* that runs any other handler, or the LLM fall-through, leaves
\* assistant_name, user_name and learned_facts as they were, for every
\* text; and whatever handler runs, every learned fact there was is still
\* there afterwards, its value kept or overwritten.
C24_OnlyWritersChangeMemory ==
    [][nreq' = nreq + 1 =>
        /\ last'.target \notin MemoryWriters =>
                instances'["s1"].memoria = instances["s1"].memoria
        /\ DictKeys(instances["s1"].memoria.datos_aprendidos)
                \subseteq DictKeys(instances'["s1"].memoria.datos_aprendidos)]_vars

\* the recall handler missed the key and asked the LLM, on a memory that
\* holds the assistant name and a learned fact, and the memory is as it was
C24_Witness ==
    /\ last.target = "_handle_recall_fact"
    /\ last.prompts # <<>>
    /\ last.llm.ok /\ last.llm.text # <<>>
    /\ instances["s1"].memoria.datos_aprendidos = << <<<<"e","l"," ","c","i","e","l","o">>, <<"a","z","u","l">>>> >>
    /\ instances["s1"].memoria.nombre = <<"L","u","n","a">>

\* C25: a request bearing session id A (greeting, interact or
\* interact-stream) leaves every other session id B as it was: B's agent,
\* if registered, keeps its memory and transcript and is neither added to
\* nor removed from the registry, and B's persisted record is neither
\* written, created nor removed.
C25_SessionIsolation ==
    [][nreq' = nreq + 1 =>
        \A B \in SessionIds \ {last'.sid} :
            /\ B \in DOMAIN instances' <=> B \in DOMAIN instances
            /\ B \in DOMAIN instances => instances'[B] = instances[B]
            /\ B \in DOMAIN store' <=> B \in DOMAIN store
            /\ B \in DOMAIN store => store'[B] = store[B]]_vars

\* session s1 was named and persisted, then a request of session s2 named
\* and persisted s2 otherwise; s1 is as it was, in memory and persisted
C25_Witness ==
    /\ last.sid = "s2"
    /\ last.target = "_handle_set_ia_name"
    /\ last.saved
    /\ DOMAIN instances = {"s1", "s2"}
    /\ DOMAIN store = {"s1", "s2"}
    /\ instances["s1"].memoria.nombre = <<"L","u","n","a">>
    /\ instances["s2"].memoria.nombre = <<"M","i"," ","n","o","m","b","r","e"," ","e","s"," ","j","u","a","n">>
    /\ Persisted("s1") = instances["s1"]
    /\ Persisted("s2") = instances["s2"]

====
